---- MODULE Spec2Model ----
(***************************************************************************)
(* The envelope parser and the VAST ad-chain resolver of                   *)
(* creative_previewer_app_webview.py: parse_ad_response with               *)
(* decode_html_entities, extract_vast_url / _process_vast_chain (media     *)
(* URL), extract_vast_click_through /                                      *)
(* _extract_click_through_from_vast_chain (click-through URL) and          *)
(* _extract_companion_ad_info; and the token handling of                   *)
(* SavannaBearerClient (savanna_bearer_client.py); and the job runner of   *)
(* the application (run_job and its monitoring callbacks) and its creative *)
(* list (on_data_loaded, filter_creatives, on_creative_select) and its     *)
(* Savanna network dropdown (_search_networks_thread and its callbacks).   *)
(* The last part runs several resolutions side by side, each call of a     *)
(* walker in a frame of its own, against one server.                       *)
(*                                                                         *)
(* Text is a sequence of tokens (a token is a run of characters that the   *)
(* code never splits: " " is whitespace, ".mp4" the suffix the code tests, *)
(* "video" the substring the regex fallback tests, "&amp;" an HTML         *)
(* entity).  Python's None is the distinguished value None.                *)
(***************************************************************************)
EXTENDS Integers, Sequences, FiniteSets, TLC

VARIABLES op, markup, pc, vast_url, wrapper_count, doc, fetches, printed,
          walkResult, walkError, ret, escaped, companion_info,
          envelope, parsed

\* SavannaBearerClient
VARIABLES bearer_token, authorization, token_expiry, client_op, sent,
          refreshed, client_ret

\* the parser and the resolver
resolverVars ==
    <<op, markup, pc, vast_url, wrapper_count, doc, fetches, printed,
      walkResult, walkError, ret, escaped, companion_info,
      envelope, parsed>>

\* the job runner
VARIABLES run_job_button, job_thread, after_queue, monitoring_active,
          current_run_id, runs_started, polls, terminal_seen

\* the creative list
VARIABLES creatives, creative_listbox, search_var, curselection,
          selected_creative, current_markup, current_type, list_op

\* the network dropdown
VARIABLES network_id_map, dropdown_values, network_dropdown_var,
          unified_ad_network_id_var, networks_loaded, load_thread,
          search_timer, net_queue, net_op

\* resolutions running side by side
VARIABLES calls, served

clientVars ==
    <<bearer_token, authorization, token_expiry, client_op, sent,
      refreshed, client_ret>>

jobVars ==
    <<run_job_button, job_thread, after_queue, monitoring_active,
      current_run_id, runs_started, polls, terminal_seen>>

listVars ==
    <<creatives, creative_listbox, search_var, curselection,
      selected_creative, current_markup, current_type, list_op>>

netVars ==
    <<network_id_map, dropdown_values, network_dropdown_var,
      unified_ad_network_id_var, networks_loaded, load_thread,
      search_timer, net_queue, net_op>>

callVars == <<calls, served>>

vars == <<resolverVars, clientVars, jobVars, listVars, netVars, callVars>>

\* what the operations of one component leave alone
beyondResolver == <<clientVars, jobVars, listVars, netVars, callVars>>

beyondClient == <<resolverVars, jobVars, listVars, netVars, callVars>>

beyondJob == <<resolverVars, clientVars, listVars, netVars, callVars>>

beyondList == <<resolverVars, clientVars, jobVars, netVars, callVars>>

beyondNet == <<resolverVars, clientVars, jobVars, listVars, callVars>>

beyondCalls == <<resolverVars, clientVars, jobVars, listVars, netVars>>

\* ------------------------------------------------------------------ bounds
\* longest MediaFile list of a document
MaxMediaFiles == 2
\* longest fetch log kept (the walk itself stops well before it)
MaxFetchLog == 8
\* longest Companion list of a markup
MaxCompanions == 2
\* job runs started, and status polls answered 'not finished' per run
MaxRuns == 2
MaxPolls == 2
\* rows the database query returns
MaxCreatives == 2
\* completion callbacks of network searches waiting in the main loop
MaxPending == 2
\* resolutions a caller runs side by side
MaxCalls == 2

\* ------------------------------------------------------------- text values
None == <<"None">>

\* str.strip(): drop leading and trailing whitespace
RECURSIVE LStrip(_)
LStrip(t) == IF t # <<>> /\ Head(t) = " " THEN LStrip(Tail(t)) ELSE t

RECURSIVE RStrip(_)
RStrip(t) == IF t # <<>> /\ t[Len(t)] = " " THEN RStrip(SubSeq(t, 1, Len(t) - 1)) ELSE t

Strip(t) == RStrip(LStrip(t))

\* str.endswith('.mp4')
EndsWithMp4(t) == t # <<>> /\ t[Len(t)] = ".mp4"

\* 'video' in s
ContainsVideo(t) == \E i \in 1..Len(t) : t[i] = "video"

\* html.unescape on the entities that occur in the modelled texts; one pass,
\* the result is not scanned again.  "U+00A0" is the no-break space.
UnescapeToken(tok) ==
    CASE tok = "&amp;" -> "&"
      [] tok = "&#38;" -> "&"
      [] tok = "&#39;" -> "'"
      [] tok = "&nbsp;" -> "U+00A0"
      [] tok = "&#160;" -> "U+00A0"
      [] OTHER -> tok

HtmlUnescape(t) == [i \in 1..Len(t) |-> UnescapeToken(t[i])]

\* Python truthiness of an Optional[str]
Truthy(t) == t # None /\ t # <<>>

\* ------------------------------------------------------------------ errors
NoError == [msg |-> "", status |-> 0]

Raise(m) == [msg |-> m, status |-> 0]

ExceededMsg == "Exceeded maximum VAST wrapper redirects"
FetchFailedMsg == "Failed to fetch VAST XML"
InvalidXmlMsg == "Invalid XML"
NoLinearMsg == "InLine VAST does not contain a Linear creative"
NoMp4Msg == "No MP4 MediaFile found in InLine VAST"
NoTagMsg == "Wrapper VAST does not contain a VASTAdTagURI"
NeitherMsg == "VAST XML contains neither InLine nor Wrapper Ad element"
\* raised by the libraries the code calls
RequestExceptionMsg == "requests.exceptions.RequestException"
ValueErrorMsg == "ValueError: invalid literal for int()"

\* ------------------------------------------------------------- MediaFiles
\* bitrate attribute: None (missing), <<>> (empty) or its characters
MediaFile(u, t, b) == [url |-> u, type |-> t, bitrate |-> b]

MediaFilePool ==
    { MediaFile(<<"a", ".mp4">>, "video/mp4", <<"5", "0", "0">>),
      MediaFile(<<"b", ".mp4">>, "video/mp4", <<"1", "2", "0", "0">>),
      MediaFile(<<" ", "c", ".mp4", " ">>, "", None),
      MediaFile(<<"video", "d", ".webm">>, "video/webm", <<"1", "2", "0", "0">>),
      MediaFile(<<"e">>, "video/mp4", <<"a", "b", "c">>),
      MediaFile(None, "video/mp4", <<>>) }

\* lists of distinct MediaFile elements
MediaLists ==
    { ml \in UNION { [1..n -> MediaFilePool] : n \in 0..MaxMediaFiles } :
        \A i, j \in 1..Len(ml) : ml[i] = ml[j] => i = j }

\* media_file.text.strip() if media_file.text else ''
MediaUrl(mf) == IF Truthy(mf.url) THEN Strip(mf.url) ELSE <<>>

\* mutant: no filter on the MediaFile
Qualifies_Any(mf) == TRUE

\* media_type == 'video/mp4' or url.endswith('.mp4')
Qualifies(mf) == mf.type = "video/mp4" \/ EndsWithMp4(MediaUrl(mf))

\* int(): whitespace is stripped, then every character must be a digit
Digits == {"0", "1", "2", "3", "4", "5", "6", "7", "8", "9"}

DigitVal(c) ==
    CASE c = "0" -> 0 [] c = "1" -> 1 [] c = "2" -> 2 [] c = "3" -> 3
      [] c = "4" -> 4 [] c = "5" -> 5 [] c = "6" -> 6 [] c = "7" -> 7
      [] c = "8" -> 8 [] OTHER -> 9

IntParses(t) == Strip(t) # <<>> /\ \A i \in 1..Len(Strip(t)) : Strip(t)[i] \in Digits

RECURSIVE IntOfDigits(_)
IntOfDigits(t) ==
    IF t = <<>> THEN 0
    ELSE 10 * IntOfDigits(SubSeq(t, 1, Len(t) - 1)) + DigitVal(t[Len(t)])

IntOf(t) == IntOfDigits(Strip(t))

\* media_file.get('bitrate', '0') or '0'
BitrateText(mf) == IF Truthy(mf.bitrate) THEN mf.bitrate ELSE <<"0">>

\* int(...) raises ValueError on the text
BitrateRaises(mf) == ~IntParses(BitrateText(mf))

Bitrate(mf) == IntOf(BitrateText(mf))

\* the loop over MediaFile elements: qualifying files, in document order
QualifyingFiles(media) == SelectSeq(media, Qualifies)

\* the loop raises when int() fails on a qualifying file
CollectRaises(media) ==
    \E i \in 1..Len(QualifyingFiles(media)) : BitrateRaises(QualifyingFiles(media)[i])

\* the media_files list of dicts {'url', 'type', 'bitrate'}
Candidates(media) ==
    [i \in 1..Len(QualifyingFiles(media)) |->
        [url |-> MediaUrl(QualifyingFiles(media)[i]),
         type |-> QualifyingFiles(media)[i].type,
         bitrate |-> Bitrate(QualifyingFiles(media)[i])]]

\* list.sort(key=bitrate, reverse=True): stable, equal keys keep their order
RECURSIVE InsertDesc(_, _)
InsertDesc(c, sorted) ==
    IF sorted = <<>> THEN <<c>>
    ELSE IF Head(sorted).bitrate >= c.bitrate
         THEN <<Head(sorted)>> \o InsertDesc(c, Tail(sorted))
         ELSE <<c>> \o sorted

RECURSIVE SortByBitrate(_)
SortByBitrate(cands) ==
    IF cands = <<>> THEN <<>>
    ELSE InsertDesc(cands[Len(cands)], SortByBitrate(SubSeq(cands, 1, Len(cands) - 1)))

\* mutant: the sort leaves out reverse=True
PrimaryVideo_Ascending(cands) == SortByBitrate(cands)[Len(cands)]

\* mutant: the list is not sorted before media_files[0] is taken
PrimaryVideo_Unsorted(cands) == Head(cands)

\* media_files[0] after the sort
PrimaryVideo(cands) == Head(SortByBitrate(cands))

\* ------------------------------------------------------------- documents
\* What ElementTree finds in a fetched body:
\*   xml     ET.fromstring succeeds
\*   inline  root.find('.//InLine') is not None
\*   linear  inline_ad.find('.//Linear') is not None
\*   media   linear.findall('.//MediaFile')
\*   click   text of VideoClicks/ClickThrough under Linear (None: no element)
\*   wrapper root.find('.//Wrapper') is not None
\*   tag     text of the wrapper's VASTAdTagURI (None: no element)
\*   wclick  text of a ClickThrough carried by the wrapper itself
Document(x, i, l, m, c, w, t, wc) ==
    [xml |-> x, inline |-> i, linear |-> l, media |-> m, click |-> c,
     wrapper |-> w, tag |-> t, wclick |-> wc]

NoDoc == Document(FALSE, FALSE, FALSE, <<>>, None, FALSE, None, None)

BadXmlDocs == { NoDoc }

NeitherDocs == { Document(TRUE, FALSE, FALSE, <<>>, None, FALSE, None, None) }

WrapperTags == { None, <<>>, <<" ">>, <<"u1">>, <<" ", "u2", " ">> }

WrapperClick == <<"wc">>

WrapperDocs ==
    { Document(TRUE, FALSE, FALSE, <<>>, None, TRUE, t, WrapperClick) : t \in WrapperTags }

InlineClicks == { <<>>, <<" ", "c1", " ">> }

InlineDocs ==
    { Document(TRUE, TRUE, FALSE, <<>>, None, FALSE, None, None) }
    \cup { Document(TRUE, TRUE, TRUE, m, None, FALSE, None, None) : m \in MediaLists }
    \cup { Document(TRUE, TRUE, TRUE, m, c, FALSE, None, None) :
             m \in { ml \in MediaLists : Len(ml) <= 1 /\ \A i \in 1..Len(ml) : ml[i].bitrate = None },
             c \in InlineClicks }

\* one document holding both an InLine ad and a Wrapper ad
BothDocs ==
    { Document(TRUE, TRUE, TRUE, m, c, TRUE, <<"u1">>, WrapperClick) :
        m \in { ml \in MediaLists : Len(ml) = 1 /\ ml[1].bitrate = None },
        c \in { None, <<"c2">> } }

\* an InLine whose Linear holds MediaFiles at bitrates 320 and 640
StubInLine ==
    Document(TRUE, TRUE, TRUE,
             <<MediaFile(<<"lo", ".mp4">>, "video/mp4", <<"3", "2", "0">>),
               MediaFile(<<"hi", ".mp4">>, "video/mp4", <<"6", "4", "0">>)>>,
             None, FALSE, None, None)

Docs ==
    BadXmlDocs \cup NeitherDocs \cup WrapperDocs \cup InlineDocs \cup BothDocs
    \cup { StubInLine }

\* --------------------------------------------------------------- network
\* requests.get(url, timeout=10): a response with a status code and a body,
\* or an exception (timeout, connection error, or no usable URL).
\* status 0 stands for the exception.
Response(st, d) == [status |-> st, body |-> d]

Responses(url, docs) ==
    IF url = <<>>
    THEN { Response(0, NoDoc) }
    ELSE { Response(0, NoDoc), Response(404, NoDoc), Response(500, NoDoc) }
         \cup { Response(200, d) : d \in docs }

\* the bodies served to the click walker, which reads no MediaFile
ClickDocs == { d \in Docs : Len(d.media) <= 1 }

\* the shape of a served body, kept in the fetch log
Shape(r) ==
    IF r.status = 0 THEN "exception"
    ELSE IF r.status # 200 THEN "non200"
    ELSE IF ~r.body.xml THEN "badxml"
    ELSE IF r.body.inline /\ r.body.wrapper THEN "both"
    ELSE IF r.body.inline THEN "inline"
    ELSE IF r.body.wrapper /\ r.body.tag # None /\ r.body.tag # <<>> THEN "wrapper"
    ELSE IF r.body.wrapper THEN "wrapper_without_uri"
    ELSE "neither"

FetchEntry(url, level, r) ==
    [uri |-> url, level |-> level, status |-> r.status, shape |-> Shape(r)]

\* ---------------------------------------------------------------- markup
\* What the regular expressions and ElementTree find in the caller's markup:
\*   cdata, plain  group(1) of the two VASTAdTagURI patterns (None: no match)
\*   xml           ET.fromstring(clean_markup) succeeds
\*   media         the MediaFile elements, in document order
\*   urlTag        text of the first <URL> element (None: no element)
\*   through       text of the first <ClickThrough> element (None: no element)
\*   tracking      text of the first <ClickTracking> element (None: no element)
\*   companions    the Companion elements, in document order
Markup(c, p, x, m, u, th, tr, co) ==
    [cdata |-> c, plain |-> p, xml |-> x, media |-> m, urlTag |-> u,
     through |-> th, tracking |-> tr, companions |-> co]

\* a CDATA tag is also matched by the plain pattern, CDATA markers included
CdataTag == <<<<"u0">>, <<"<![CDATA[", "u0", "]]>">>>>
PlainTag == <<None, <<"u", "&amp;", "0">>>>
EmptyTag == <<None, <<>>>>

MarkupThrough == <<"mc">>
MarkupTracking == <<"mt">>

ClickForms == { <<None, None>>, <<MarkupThrough, None>>, <<MarkupThrough, MarkupTracking>>,
                <<None, MarkupTracking>> }

UrlTags == { None, <<" ", "video", "x">> }

Companion(st, ct) == [static |-> st, click |-> ct]

\* static, click: text of the first StaticResource / CompanionClickThrough
\* under the Companion (None: no such element, <<>>: an element without text)
CompanionPool ==
    { Companion(<<" ", "img", " ">>, <<"cc">>), Companion(None, None), Companion(<<>>, <<"cc">>),
      Companion(<<" ">>, <<>>) }

CompanionLists == UNION { [1..n -> CompanionPool] : n \in 0..MaxCompanions }

\* wrapper markups: the markup carries a VASTAdTagURI
WrapperMarkup(t, c) == Markup(t[1], t[2], TRUE, <<>>, None, c[1], c[2], <<>>)

\* a wrapper markup that holds a MediaFile of its own
WrapperMediaMarkup ==
    Markup(CdataTag[1], CdataTag[2], TRUE,
           <<MediaFile(<<"own", ".mp4">>, "video/mp4", <<"9", "0", "0">>)>>,
           None, None, None, <<>>)

WrapperMarkups ==
    { WrapperMarkup(CdataTag, <<None, None>>), WrapperMarkup(PlainTag, <<None, None>>),
      WrapperMarkup(EmptyTag, <<None, None>>), WrapperMediaMarkup }

\* wrapper markups that carry click elements of their own
WrapperClickMarkups ==
    { WrapperMarkup(CdataTag, <<MarkupThrough, None>>),
      WrapperMarkup(PlainTag, <<None, MarkupTracking>>),
      WrapperMarkup(EmptyTag, <<None, None>>),
      WrapperMarkup(EmptyTag, <<MarkupThrough, MarkupTracking>>) }

\* direct VAST markups: no VASTAdTagURI
DirectMarkups ==
    { Markup(None, None, x, m, u, None, None, <<>>) :
        x \in BOOLEAN, m \in MediaLists, u \in UrlTags }

ClickMarkups ==
    { Markup(None, None, TRUE, <<>>, None, c[1], c[2], <<>>) : c \in ClickForms }

CompanionMarkups ==
    { Markup(None, None, x, <<>>, None, None, None, co) :
        x \in BOOLEAN, co \in CompanionLists }

\* mutant: the plain pattern is tried before the CDATA pattern
VastAdTag_PlainFirst(m) == IF m.plain # None THEN m.plain ELSE m.cdata

\* for pattern in vast_ad_tag_patterns: first pattern that matches
VastAdTag(m) == IF m.cdata # None THEN m.cdata ELSE m.plain

\* re.search of the two VASTAdTagURI patterns in a text: the position of the
\* first opening tag and of the first closing tag after it (0: no match)
RECURSIVE IndexFrom(_, _, _)
IndexFrom(t, tok, i) ==
    IF i > Len(t) THEN 0 ELSE IF t[i] = tok THEN i ELSE IndexFrom(t, tok, i + 1)

TagOpen(t) == IndexFrom(t, "<VASTAdTagURI>", 1)
TagClose(t) == IF TagOpen(t) = 0 THEN 0 ELSE IndexFrom(t, "</VASTAdTagURI>", TagOpen(t) + 1)

\* group(1) of r'<VASTAdTagURI>(.*?)</VASTAdTagURI>'
PlainGroup(t) == IF TagClose(t) = 0 THEN None ELSE SubSeq(t, TagOpen(t) + 1, TagClose(t) - 1)

\* group(1) of r'<VASTAdTagURI><![CDATA[(.*?)]]></VASTAdTagURI>'
CdataGroup(t) ==
    IF /\ PlainGroup(t) # None /\ Len(PlainGroup(t)) >= 2
       /\ Head(PlainGroup(t)) = "<![CDATA[" /\ PlainGroup(t)[Len(PlainGroup(t))] = "]]>"
    THEN SubSeq(PlainGroup(t), 2, Len(PlainGroup(t)) - 1)
    ELSE None

\* what extract_vast_url finds in a creative handed over by the parser
ScanMarkup(t) ==
    Markup(CdataGroup(t), PlainGroup(t), PlainGroup(t) # None, <<>>, None, None, None, <<>>)

\* ------------------------------------------------------- the chain walkers
\* what one call of a walker does with its response
Return(v) == [kind |-> "return", value |-> v, error |-> NoError, next |-> <<>>]
Raised(e) == [kind |-> "raise", value |-> None, error |-> e, next |-> <<>>]
Recurse(u) == [kind |-> "recurse", value |-> None, error |-> NoError, next |-> u]

MAX_VAST_WRAPPERS == 5

\* mutants of the hop-limit check: off by one, and dropped
HopLimitExceeded_AtCap(wc) == wc >= MAX_VAST_WRAPPERS

HopLimitExceeded_Never(wc) == FALSE

\* if wrapper_count > MAX_VAST_WRAPPERS: raise
HopLimitExceeded(wc) == wc > MAX_VAST_WRAPPERS

\* mutant: the recursive call passes wrapper_count on unchanged
NextWrapperCount_Same(wc) == wc

\* self._process_vast_chain(next_vast_url, wrapper_count + 1)
NextWrapperCount(wc) == wc + 1

\* requests.get raised, or response.status_code != 200
FetchOutcome(r) ==
    IF r.status = 0 THEN Raised(Raise(RequestExceptionMsg))
    ELSE Raised([msg |-> FetchFailedMsg, status |-> r.status])

\* mutant: an InLine without an mp4 MediaFile returns nothing instead of raising
InLineMedia_NoMp4ReturnsNone(d) ==
    IF ~d.linear THEN Raised(Raise(NoLinearMsg))
    ELSE IF CollectRaises(d.media) THEN Raised(Raise(ValueErrorMsg))
    ELSE IF Candidates(d.media) = <<>> THEN Return(None)
    ELSE Return(PrimaryVideo(Candidates(d.media)).url)

\* the InLine branch of _process_vast_chain
InLineMedia(d) ==
    IF ~d.linear THEN Raised(Raise(NoLinearMsg))
    ELSE IF CollectRaises(d.media) THEN Raised(Raise(ValueErrorMsg))
    ELSE IF Candidates(d.media) = <<>> THEN Raised(Raise(NoMp4Msg))
    ELSE Return(PrimaryVideo(Candidates(d.media)).url)

\* the Wrapper branch of _process_vast_chain
WrapperNext(d) ==
    IF ~Truthy(d.tag) THEN Raised(Raise(NoTagMsg))
    ELSE Recurse(Strip(d.tag))

\* mutant: a document without InLine is taken for a Wrapper
ProcessVastResponse_NeitherAsWrapper(r) ==
    IF r.status # 200 THEN FetchOutcome(r)
    ELSE IF ~r.body.xml THEN Raised(Raise(InvalidXmlMsg))
    ELSE IF r.body.inline THEN InLineMedia(r.body)
    ELSE WrapperNext(r.body)

\* mutant: the Wrapper element is looked for before the InLine element
ProcessVastResponse_WrapperFirst(r) ==
    IF r.status # 200 THEN FetchOutcome(r)
    ELSE IF ~r.body.xml THEN Raised(Raise(InvalidXmlMsg))
    ELSE IF r.body.wrapper THEN WrapperNext(r.body)
    ELSE IF r.body.inline THEN InLineMedia(r.body)
    ELSE Raised(Raise(NeitherMsg))

\* the body of _process_vast_chain after the hop-limit check
ProcessVastResponse(r) ==
    IF r.status # 200 THEN FetchOutcome(r)
    ELSE IF ~r.body.xml THEN Raised(Raise(InvalidXmlMsg))
    ELSE IF r.body.inline THEN InLineMedia(r.body)
    ELSE IF r.body.wrapper THEN WrapperNext(r.body)
    ELSE Raised(Raise(NeitherMsg))

CLICK_MAX_VAST_WRAPPERS == 5

ClickHopLimitExceeded(wc) == wc > CLICK_MAX_VAST_WRAPPERS

\* mutant: the walker falls back to the wrapper's own ClickThrough
InLineClickThrough_WrapperClick(d) ==
    IF ~d.linear THEN Raised(Raise(NoLinearMsg))
    ELSE IF Truthy(d.click) THEN Return(Strip(d.click))
    ELSE Return(d.wclick)

\* the InLine branch of _extract_click_through_from_vast_chain
InLineClickThrough(d) ==
    IF ~d.linear THEN Raised(Raise(NoLinearMsg))
    ELSE IF Truthy(d.click) THEN Return(Strip(d.click))
    ELSE Return(None)

\* mutant: the click walker follows the VASTAdTagURI text as it stands
ClickWrapperNext_Unstripped(d) ==
    IF ~Truthy(d.tag) THEN Raised(Raise(NoTagMsg))
    ELSE Recurse(d.tag)

\* the Wrapper branch of _extract_click_through_from_vast_chain
ClickWrapperNext(d) ==
    IF ~Truthy(d.tag) THEN Raised(Raise(NoTagMsg))
    ELSE Recurse(Strip(d.tag))

\* requests.get raised, or response.status_code != 200
ClickFetchOutcome(r) ==
    IF r.status = 0 THEN Raised(Raise(RequestExceptionMsg))
    ELSE Raised([msg |-> FetchFailedMsg, status |-> r.status])

\* the body of _extract_click_through_from_vast_chain after the hop-limit check
ClickThroughResponse(r) ==
    IF r.status # 200 THEN ClickFetchOutcome(r)
    ELSE IF ~r.body.xml THEN Raised(Raise(InvalidXmlMsg))
    ELSE IF r.body.inline THEN InLineClickThrough(r.body)
    ELSE IF r.body.wrapper THEN ClickWrapperNext(r.body)
    ELSE Raised(Raise(NeitherMsg))

\* the levels whose except clause prints "Error ... (Level k)" and re-raises,
\* innermost first: k, k-1, ..., 0
LevelsDown(k) == [i \in 1..(k + 1) |-> k + 1 - i]

\* mutant: only the innermost except clause prints
PrintedFromTry_Innermost(wc) == <<wc>>

\* an error raised inside the try of the call at level wc
PrintedFromTry(wc) == LevelsDown(wc)

\* the hop-limit error is raised before the try of the call at level wc
PrintedFromHopLimit(wc) == LevelsDown(wc - 1)

\* ------------------------------------------------- direct VAST, fallbacks
\* the four direct_media_patterns, in order: group(1) of each that matches
RegexMatches(m) ==
    (IF m.media # <<>>
     THEN << IF Truthy(m.media[1].url) THEN m.media[1].url ELSE <<>> >>
     ELSE <<>>)
    \o (IF m.urlTag # None THEN <<m.urlTag>> ELSE <<>>)

\* media_url and (media_url.endswith('.mp4') or 'video' in media_url)
RegexAccepts(t) == Strip(t) # <<>> /\ (EndsWithMp4(Strip(t)) \/ ContainsVideo(Strip(t)))

RECURSIVE RegexFallback(_)
RegexFallback(matches) ==
    IF matches = <<>> THEN None
    ELSE IF RegexAccepts(Head(matches)) THEN Strip(Head(matches))
    ELSE RegexFallback(Tail(matches))

\* mutant: the regex scan runs only in the except ET.ParseError clause
DirectVast_RegexOnParseErrorOnly(m) ==
    IF m.xml /\ CollectRaises(m.media) THEN Raised(Raise(ValueErrorMsg))
    ELSE IF m.xml /\ Candidates(m.media) # <<>>
         THEN Return(PrimaryVideo(Candidates(m.media)).url)
    ELSE IF m.xml THEN Return(None)
    ELSE Return(RegexFallback(RegexMatches(m)))

\* extract_vast_url on a markup without VASTAdTagURI
DirectVast(m) ==
    IF m.xml /\ CollectRaises(m.media) THEN Raised(Raise(ValueErrorMsg))
    ELSE IF m.xml /\ Candidates(m.media) # <<>>
         THEN Return(PrimaryVideo(Candidates(m.media)).url)
    ELSE Return(RegexFallback(RegexMatches(m)))

\* except Exception: return vast_xml_url
ChainFailureFallback(m) == HtmlUnescape(VastAdTag(m))

\* the four click_patterns, in order
ClickFallback(m) ==
    IF m.through # None THEN m.through
    ELSE IF m.tracking # None THEN m.tracking
    ELSE None

\* mutant: a missing element reads as '' instead of None
CompanionText_EmptyWhenMissing(t) == IF Truthy(t) THEN Strip(t) ELSE <<>>

\* x.text.strip() if x is not None and x.text else None
CompanionText(t) == IF Truthy(t) THEN Strip(t) ELSE None

\* 'if image_url:' / 'if click_url:': the section of the companion's block
\* that shows the URL (None: the block has no such section)
CompanionSection(u) == IF Truthy(u) THEN u ELSE None

\* _extract_companion_ad_info: one block per Companion element, in the order
\* of findall; items are the image_url and click_url of each loop pass, html
\* what the returned 'html' shows of them
CompanionInfo(m) ==
    IF ~m.xml \/ m.companions = <<>> THEN [found |-> FALSE, items |-> <<>>, html |-> <<>>]
    ELSE [found |-> TRUE,
          items |-> [i \in 1..Len(m.companions) |->
                       [image_url |-> CompanionText(m.companions[i].static),
                        click_url |-> CompanionText(m.companions[i].click)]],
          html |-> [i \in 1..Len(m.companions) |->
                       [image |-> CompanionSection(CompanionText(m.companions[i].static)),
                        click |-> CompanionSection(CompanionText(m.companions[i].click))]]]

\* ------------------------------------------------------ the envelope parser
\* What ElementTree finds in the envelope handed to parse_ad_response:
\*   falsy      xml_string is None or ''
\*   null       xml_string is None
\*   xml        ET.fromstring succeeds
\*   typeAt     where the first AdType element lives: "ns" (vendor
\*              namespace), "plain" (unqualified) or "none"
\*   typeValue  its Value attribute (None: no attribute)
\*   width, height  Value of the namespaced AdWidth / AdHeight (None: absent)
\*   nsAd       the first Ad descendant in the vendor namespace
\*   plainAd    the first unqualified Ad descendant
\* An Ad element is its children's texts, in document order, and its own
\* text (None: no text).  The default parser keeps no comment nodes.
NoAd == [present |-> FALSE, children |-> <<>>, text |-> None]

AdElem(ch, tx) == [present |-> TRUE, children |-> ch, text |-> tx]

Envelope(f, x, ta, tv, w, h, ns, pl) ==
    [falsy |-> f, null |-> FALSE, xml |-> x, typeAt |-> ta, typeValue |-> tv,
     width |-> w, height |-> h, nsAd |-> ns, plainAd |-> pl]

\* payload texts: a wrapper VAST in plain and in CDATA form, texts with
\* entities, a text escaped twice
WrapperPayload == <<" ", "<VASTAdTagURI>", "u", "&amp;", "0", "</VASTAdTagURI>", " ">>
CdataWrapperPayload == <<"<VASTAdTagURI>", "<![CDATA[", "u0", "]]>", "</VASTAdTagURI>">>

EntityPayloads ==
    { <<"a", "&amp;", "b">>, <<"it", "&#39;", "s">>, <<"a", "&nbsp;", "b">>,
      <<"&amp;", "nbsp;", "x">>, <<"&amp;", "#38;", "#160;">> }

Payloads == { WrapperPayload, CdataWrapperPayload } \cup EntityPayloads

AdElems ==
    { AdElem(<<>>, t) : t \in Payloads }
    \cup { AdElem(<<None, <<" ">>, t>>, <<"own">>) : t \in { WrapperPayload, <<"a", "&nbsp;", "b">> } }
    \cup { AdElem(<<>>, None), AdElem(<<<<" ">>>>, <<" ">>), AdElem(<<None>>, <<>>) }
    \cup { AdElem(<<<<" ", "one">>, <<"two">>>>, <<"own">>),
           AdElem(<<<<" ">>, None>>, <<" ", "own", " ">>) }

\* attribute values are texts
Vast8 == <<"8">>
Display4 == <<"4">>

AdTypeForms ==
    { <<"none", None>>, <<"plain", Vast8>>, <<"ns", None>>, <<"ns", Vast8>>,
      <<"ns", Display4>>, <<"ns", <<"0", "8">>>>, <<"ns", <<" ", "8">>>>, <<"ns", <<>>>>,
      <<"ns", <<"9">>>> }

Dimensions == { <<None, None>>, <<<<"320">>, <<"480">>>> }

\* the empty string
NoEnvelope == Envelope(TRUE, FALSE, "none", None, None, None, NoAd, NoAd)

\* None: a creative without markup
NullEnvelope == [NoEnvelope EXCEPT !.null = TRUE]

Envelopes ==
    { NoEnvelope, NullEnvelope,
      Envelope(FALSE, FALSE, "none", None, None, None, NoAd, NoAd) }
    \cup { Envelope(FALSE, TRUE, ty[1], ty[2], None, None, NoAd, NoAd) : ty \in AdTypeForms }
    \cup { Envelope(FALSE, TRUE, ty[1], ty[2], None, None, ad, NoAd) :
             ty \in AdTypeForms, ad \in AdElems }
    \cup { Envelope(FALSE, TRUE, "ns", Display4, d[1], d[2], ad, NoAd) :
             d \in Dimensions, ad \in AdElems }
    \cup { Envelope(FALSE, TRUE, ty[1], ty[2], None, None, NoAd, ad) :
             ty \in { <<"plain", Vast8>>, <<"ns", Display4>> }, ad \in AdElems }
    \cup { Envelope(FALSE, TRUE, "ns", Vast8, None, None,
                    AdElem(<<>>, <<"it", "&#39;", "s">>), AdElem(<<>>, <<"a", "&amp;", "b">>)) }

\* the dict parse_ad_response returns: {'error'} or {'type', 'creative',
\* 'width', 'height'}; a key it does not hold reads as "" / None
ErrorResult(m) ==
    [error |-> m, type |-> "", creative |-> None, width |-> None, height |-> None]

Parsed(ty, c, w, h) ==
    [error |-> "", type |-> ty, creative |-> c, width |-> w, height |-> h]

NoContentMsg == "No XML content provided"
XmlParsingErrorMsg == "XML parsing error"
NoAdElementMsg == "No Ad element found"
NoCdataMsg == "No CDATA content found"

\* type_elem.get('Value') of root.find('.//{TNS}AdType')
AdTypeValue(e) == IF e.typeAt = "ns" THEN e.typeValue ELSE None

\* root.find('.//{TNS}Ad'), then root.find('.//Ad')
FindAd(e) == IF e.nsAd.present THEN e.nsAd ELSE e.plainAd

\* for child in ad_elem: the first child whose text is not blank, stripped
RECURSIVE FirstChildText(_)
FirstChildText(ch) ==
    IF ch = <<>> THEN None
    ELSE IF Truthy(Head(ch)) /\ Strip(Head(ch)) # <<>> THEN Strip(Head(ch))
    ELSE FirstChildText(Tail(ch))

\* mutant: the element's own text is tried before its children
CdataContent_OwnTextFirst(ad) ==
    IF Truthy(ad.text) /\ Strip(ad.text) # <<>> THEN Strip(ad.text)
    ELSE IF Truthy(FirstChildText(ad.children)) THEN FirstChildText(ad.children)
    ELSE <<>>

\* the child's text, else ad_elem.text.strip() if ad_elem.text else ""
CdataContent(ad) ==
    IF Truthy(FirstChildText(ad.children)) THEN FirstChildText(ad.children)
    ELSE IF Truthy(ad.text) THEN Strip(ad.text)
    ELSE <<>>

\* decoded.replace(entity, replacement): the entity is the two tokens
\* "&" and name
RECURSIVE ReplaceEntity(_, _, _)
ReplaceEntity(t, name, repl) ==
    IF t = <<>> THEN <<>>
    ELSE IF Len(t) >= 2 /\ t[1] = "&" /\ t[2] = name
         THEN <<repl>> \o ReplaceEntity(SubSeq(t, 3, Len(t)), name, repl)
         ELSE <<Head(t)>> \o ReplaceEntity(Tail(t), name, repl)

\* the replacements table, applied in its order
Replacements(t) ==
    ReplaceEntity(
      ReplaceEntity(
        ReplaceEntity(
          ReplaceEntity(
            ReplaceEntity(
              ReplaceEntity(
                ReplaceEntity(t, "nbsp;", " "),
                "#39;", "'"),
              "#34;", "\""),
            "#60;", "<"),
          "#62;", ">"),
        "#38;", "&"),
      "#160;", " ")

decode_html_entities(t) == IF ~Truthy(t) THEN t ELSE Replacements(HtmlUnescape(t))

\* mutant: only the code "4" is tested, every other code counts as VAST
AdTypeOf_DisplayOnlyForFour(v) == IF v = Display4 THEN "display" ELSE "vast"

\* if ad_type == '4' ... elif ad_type == '8' ... else
AdTypeOf(v) ==
    IF v = Display4 THEN "display" ELSE IF v = Vast8 THEN "vast" ELSE "display"

\* mutant: the test 'if not xml_string' is left out, the input goes to
\* ET.fromstring
ParseAdResponse_NoEmptyCheck(e) ==
    IF ~e.xml THEN ErrorResult(XmlParsingErrorMsg)
    ELSE IF ~FindAd(e).present THEN ErrorResult(NoAdElementMsg)
    ELSE IF ~Truthy(CdataContent(FindAd(e))) THEN ErrorResult(NoCdataMsg)
    ELSE Parsed(AdTypeOf(AdTypeValue(e)),
                decode_html_entities(CdataContent(FindAd(e))), e.width, e.height)

\* mutant: the test 'if ad_elem is None' is left out
ParseAdResponse_NoAdCheck(e) ==
    IF e.falsy THEN ErrorResult(NoContentMsg)
    ELSE IF ~e.xml THEN ErrorResult(XmlParsingErrorMsg)
    ELSE IF ~Truthy(CdataContent(FindAd(e))) THEN ErrorResult(NoCdataMsg)
    ELSE Parsed(AdTypeOf(AdTypeValue(e)),
                decode_html_entities(CdataContent(FindAd(e))), e.width, e.height)

\* the whole of parse_ad_response
ParseAdResponse(e) ==
    IF e.falsy THEN ErrorResult(NoContentMsg)
    ELSE IF ~e.xml THEN ErrorResult(XmlParsingErrorMsg)
    ELSE IF ~FindAd(e).present THEN ErrorResult(NoAdElementMsg)
    ELSE IF ~Truthy(CdataContent(FindAd(e))) THEN ErrorResult(NoCdataMsg)
    ELSE Parsed(AdTypeOf(AdTypeValue(e)),
                decode_html_entities(CdataContent(FindAd(e))), e.width, e.height)

\* ------------------------------------------------------ the Savanna client
\* A bearer token is its text (id) and what _is_token_expired finds in it:
\*   "undecodable"  not a JWT of three parts, or a payload without 'exp'
\*   "past"         exp is not after now
\*   "soon"         exp is within refresh_threshold (3600 s) of now
\*   "later"        exp is further away
Token(i, e) == [id |-> i, exp |-> e]

NoToken == Token("", "undecodable")

\* the token hard-coded in prompt_for_savanna_token; it expired in 2025
DefaultToken == Token("default", "past")

Tokens ==
    { Token("t1", "later"), Token("t2", "past"), Token("t3", "soon"),
      Token("t4", "undecodable"), DefaultToken }

\* f'Bearer {token}'
Bearer(t) == [scheme |-> "Bearer ", credentials |-> t.id]

NoHeader == [scheme |-> "", credentials |-> ""]

\* the fields of the client that the token methods read and write
ClientFields(t, a, x) == [bearer_token |-> t, authorization |-> a, token_expiry |-> x]

\* _is_token_expired(token): (is_expired, expiry_time)
IsTokenExpired(t) ==
    [expired |-> t.exp \in { "undecodable", "past" },
     expiry |-> IF t.exp = "undecodable" THEN "None" ELSE t.exp]

\* expiry_time and (expiry_time - now).total_seconds() <= refresh_threshold
ExpiresSoon(t) ==
    /\ IsTokenExpired(t).expiry # "None"
    /\ IsTokenExpired(t).expiry \in { "past", "soon" }

\* the two endpoints
savanna_api_url == "https://savanna.fyber.com/creative-pulling"
feathers_auth_url == "https://savanna.fyber.com/authentication"

\* one session.post: where it went, the Authorization header it carried,
\* its json and the status that came back (0: the call raised)
Request(u, a, j, st) == [url |-> u, authorization |-> a, json |-> j, status |-> st]

\* answers of the authentication endpoint: an exception, a refusal, or 200
\* with an accessToken (NoToken: no such key, or a body that is not JSON)
FeathersResponses ==
    { [status |-> st, token |-> NoToken] : st \in { 0, 401, 500 } }
    \cup { [status |-> 200, token |-> t] :
             t \in { Token("t1", "later"), Token("t3", "soon"),
                     Token("t4", "undecodable"), NoToken } }

\* what prompt_for_savanna_token gives back: the token typed in, the default
\* token when the dialog is cancelled, or an exception of the dialog
PromptOutcomes ==
    { [kind |-> "token", token |-> t] :
        t \in { Token("t1", "later"), Token("t2", "past"), DefaultToken } }
    \cup { [kind |-> "raise", token |-> NoToken] }

\* the creative data posted
CreativeData == { "creative_1", "creative_2" }

\* answers of the creative-pulling endpoint to a post of d
PostResponses(d) ==
    { [status |-> st, body |-> None] : st \in { 0, 401, 403, 500 } }
    \cup { [status |-> 200, body |-> <<"json", d>>],
           [status |-> 200, body |-> <<"text", d>>],
           [status |-> 201, body |-> <<"json", d>>] }

\* _refresh_token_feathers: the new token, or NoToken for None
RefreshTokenFeathers(c, f) ==
    IF f.status = 200 /\ f.token # NoToken /\ f.token # c.bearer_token
    THEN f.token ELSE NoToken

\* mutant: the token is replaced, the session header is not
UpdateToken_TokenOnly(c, t) ==
    ClientFields(t, c.authorization, IsTokenExpired(t).expiry)

\* _update_token(new_token)
UpdateToken(c, t) == ClientFields(t, Bearer(t), IsTokenExpired(t).expiry)

\* _refresh_token: Feathers first, then the prompt; ret is its return value,
\* raised tells that the prompt's exception left it
RefreshToken(c, f, p) ==
    LET post == <<Request(feathers_auth_url, c.authorization, "jwt", f.status)>>
        new == RefreshTokenFeathers(c, f)
    IN  IF new # NoToken
        THEN [client |-> UpdateToken(c, new), ret |-> "True", raised |-> FALSE, sent |-> post]
        ELSE IF p.kind = "raise"
        THEN [client |-> c, ret |-> "None", raised |-> TRUE, sent |-> post]
        ELSE IF p.token # c.bearer_token
        THEN [client |-> UpdateToken(c, p.token), ret |-> "True", raised |-> FALSE,
              sent |-> post]
        ELSE [client |-> c, ret |-> "False", raised |-> FALSE, sent |-> post]

\* refresh_token_if_needed
RefreshTokenIfNeeded(c, f, p) ==
    IF IsTokenExpired(c.bearer_token).expired \/ ExpiresSoon(c.bearer_token)
    THEN IF RefreshToken(c, f, p).raised
         THEN [client |-> c, ret |-> "False", sent |-> RefreshToken(c, f, p).sent]
         ELSE [client |-> RefreshToken(c, f, p).client,
               ret |-> RefreshToken(c, f, p).ret,
               sent |-> RefreshToken(c, f, p).sent]
    ELSE [client |-> c, ret |-> "True", sent |-> <<>>]

\* _ensure_valid_token: it has no return statement
EnsureValidToken(c, f, p) ==
    IF IsTokenExpired(c.bearer_token).expired
    THEN [client |-> RefreshToken(c, f, p).client, ret |-> "None",
          sent |-> RefreshToken(c, f, p).sent]
    ELSE [client |-> [c EXCEPT !.token_expiry = IsTokenExpired(c.bearer_token).expiry],
          ret |-> "None", sent |-> <<>>]

\* Python's truth value of a returned None / False / True
Falsy(v) == v \in { "None", "False" }

\* response.status_code in [200, 201]
PostSucceeded(r) == r.status \in { 200, 201 }

\* mutant: the request is repeated whatever refresh_token_if_needed returned
PostToCreativePulling_RetryAlways(c, d, r1, f, p, r2) ==
    LET first == <<Request(savanna_api_url, c.authorization, d, r1.status)>>
        rr == RefreshTokenIfNeeded(c, f, p)
        second == <<Request(savanna_api_url, rr.client.authorization, d, r2.status)>>
    IN  IF PostSucceeded(r1)
        THEN [client |-> c, ret |-> r1.body, sent |-> first, refreshed |-> "not called"]
        ELSE IF r1.status = 401
        THEN [client |-> rr.client,
              ret |-> IF PostSucceeded(r2) THEN r2.body ELSE None,
              sent |-> first \o rr.sent \o second, refreshed |-> rr.ret]
        ELSE [client |-> c, ret |-> None, sent |-> first, refreshed |-> "not called"]

\* post_to_creative_pulling(creative_data)
PostToCreativePulling(c, d, r1, f, p, r2) ==
    LET first == <<Request(savanna_api_url, c.authorization, d, r1.status)>>
        rr == RefreshTokenIfNeeded(c, f, p)
        second == <<Request(savanna_api_url, rr.client.authorization, d, r2.status)>>
    IN  IF PostSucceeded(r1)
        THEN [client |-> c, ret |-> r1.body, sent |-> first, refreshed |-> "not called"]
        ELSE IF r1.status = 401
        THEN IF ~Falsy(rr.ret)
             THEN [client |-> rr.client,
                   ret |-> IF PostSucceeded(r2) THEN r2.body ELSE None,
                   sent |-> first \o rr.sent \o second, refreshed |-> rr.ret]
             ELSE [client |-> rr.client, ret |-> None,
                   sent |-> first \o rr.sent, refreshed |-> rr.ret]
        ELSE [client |-> c, ret |-> None, sent |-> first, refreshed |-> "not called"]

\* smart_post_to_creative_pulling(creative_data)
SmartPostToCreativePulling(c, d, r1, f, p, r2) ==
    LET e == EnsureValidToken(c, f, p)
        post == PostToCreativePulling(e.client, d, r1, f, p, r2)
    IN  IF Falsy(e.ret)
        THEN [client |-> e.client, ret |-> None, sent |-> e.sent,
              refreshed |-> "not called"]
        ELSE [client |-> post.client, ret |-> post.ret, sent |-> e.sent \o post.sent,
              refreshed |-> post.refreshed]

\* ------------------------------------------------------------ the job runner
\* a callback handed to root.after, with the run it is about (0: none)
Callback(f, run) == [fn |-> f, run |-> run]

StatusUpdate == Callback("_update_job_status", 0)

\* life_cycle_state values that end a run, and the others
TerminalStates == { "TERMINATED", "SKIPPED", "INTERNAL_ERROR" }
LifeCycleStates == TerminalStates \cup { "PENDING", "RUNNING" }

\* answers of jobs/run-now: an exception (0), a refusal, or 200 with a run_id
RunNowResponses == { 0, 403, 200 }

\* answers of jobs/runs/get: an exception (status 0), a refusal, or 200 with
\* the state of the run
RunStates ==
    { [status |-> st, life_cycle_state |-> "UNKNOWN", result_state |-> "UNKNOWN"] :
        st \in { 0, 500 } }
    \cup { [status |-> 200, life_cycle_state |-> l, result_state |-> r] :
             l \in LifeCycleStates, r \in { "SUCCESS", "FAILED" } }

\* what _run_job_thread hands to root.after for run number run once the
\* request has been answered
RunJobThread(run, status) ==
    IF status = 200
    THEN <<StatusUpdate, Callback("_start_job_monitoring", run)>>
    ELSE <<Callback("_job_failed", run)>>

\* mutant: a failed status request schedules nothing
MonitorJobProgress_SilentFailure(run, r) ==
    IF r.status # 200
    THEN [schedule |-> <<>>, monitoring |-> FALSE, terminal |-> FALSE]
    ELSE IF r.life_cycle_state \in TerminalStates
    THEN [schedule |-> <<StatusUpdate,
                         IF r.result_state = "SUCCESS"
                         THEN Callback("_job_completed_successfully", run)
                         ELSE Callback("_job_completed_with_error", run)>>,
          monitoring |-> FALSE, terminal |-> TRUE]
    ELSE [schedule |-> <<StatusUpdate, Callback("_monitor_job_progress", run)>>,
          monitoring |-> TRUE, terminal |-> FALSE]

\* _monitor_job_progress(run_id) with monitoring_active set: what it hands
\* to root.after, what it leaves in monitoring_active, and whether it saw a
\* terminal life_cycle_state
MonitorJobProgress(run, r) ==
    IF r.status # 200
    THEN [schedule |-> <<Callback("_job_failed", run)>>,
          monitoring |-> FALSE, terminal |-> FALSE]
    ELSE IF r.life_cycle_state \in TerminalStates
    THEN [schedule |-> <<StatusUpdate,
                         IF r.result_state = "SUCCESS"
                         THEN Callback("_job_completed_successfully", run)
                         ELSE Callback("_job_completed_with_error", run)>>,
          monitoring |-> FALSE, terminal |-> TRUE]
    ELSE [schedule |-> <<StatusUpdate, Callback("_monitor_job_progress", run)>>,
          monitoring |-> TRUE, terminal |-> FALSE]

\* ---------------------------------------------------------- the creative list
\* a row of the query: day, creativeId, adSize, type, markup (an envelope)
Creative(d, i, sz, ty, m) == [day |-> d, id |-> i, size |-> sz, type |-> ty, markup |-> m]

\* selected_creative before any selection
NoCreative == Creative(None, <<>>, None, <<>>, NullEnvelope)

VastEnvelope ==
    Envelope(FALSE, TRUE, "ns", Vast8, None, None, AdElem(<<>>, WrapperPayload), NoAd)

DisplayEnvelope ==
    Envelope(FALSE, TRUE, "ns", Display4, None, None,
             AdElem(<<>>, <<"a", "&amp;", "b">>), NoAd)

\* a VAST creative, a display creative without a day, a creative without
\* adSize and markup
CreativePool ==
    { Creative(<<"2025-09-01">>, <<"a1">>, <<"320x480">>, <<"VAST">>, VastEnvelope),
      Creative(None, <<"b2">>, <<"320x50">>, <<"display">>, DisplayEnvelope),
      Creative(<<"2025-09-02">>, <<"c3">>, None, <<"vast">>, NullEnvelope) }

RECURSIVE SeqsUpTo(_, _)
SeqsUpTo(S, n) ==
    IF n = 0 THEN { <<>> }
    ELSE SeqsUpTo(S, n - 1)
         \cup { Append(q, x) : q \in { r \in SeqsUpTo(S, n - 1) : Len(r) = n - 1 }, x \in S }

CreativeLists == SeqsUpTo(CreativePool, MaxCreatives)

\* what the user may have typed into the search entry
SearchTerms == { <<>>, <<"VAST">>, <<"b2">>, <<"zz">> }

\* str.lower() of a token
LowerToken(tok) == IF tok = "VAST" THEN "vast" ELSE tok

LowerText(t) == [i \in 1..Len(t) |-> LowerToken(t[i])]

\* a in b, for strings
Contains(a, b) ==
    \/ a = <<>>
    \/ \E i \in 1..Len(b) :
          i + Len(a) - 1 <= Len(b) /\ SubSeq(b, i, i + Len(a) - 1) = a

\* str(x) and {x} in an f-string: a text is itself and None reads 'None',
\* the one token that None is made of
Str(x) == x

\* day_str: the day's first characters, or 'N/A' when there is no day
DayStr(c) == IF Truthy(c.day) THEN c.day ELSE <<"N/A">>

\* f"{day_str} | {creative['id']} | {creative['size']} | {creative['type']}"
DisplayText(c) ==
    DayStr(c) \o <<" | ">> \o Str(c.id) \o <<" | ">> \o Str(c.size) \o <<" | ">> \o Str(c.type)

\* the test of filter_creatives and on_creative_select on one creative:
\* creative['size'].lower() raises AttributeError when the size is None and
\* the id did not match
Matches(term, c) ==
    IF Contains(term, LowerText(Str(c.id))) THEN "yes"
    ELSE IF c.size = None THEN "raise"
    ELSE IF \/ Contains(term, LowerText(c.size))
            \/ Contains(term, LowerText(Str(c.type)))
            \/ Contains(term, LowerText(DayStr(c)))
         THEN "yes"
    ELSE "no"

\* the loop over self.creatives: the creatives that matched before the loop
\* ended or raised
RECURSIVE Filtered(_, _)
Filtered(cs, term) ==
    IF cs = <<>> THEN [list |-> <<>>, raised |-> FALSE]
    ELSE IF Matches(term, Head(cs)) = "raise" THEN [list |-> <<>>, raised |-> TRUE]
    ELSE LET rest == Filtered(Tail(cs), term)
         IN  IF Matches(term, Head(cs)) = "yes"
             THEN [list |-> <<Head(cs)>> \o rest.list, raised |-> rest.raised]
             ELSE rest

Rows(cs) == [i \in 1..Len(cs) |-> DisplayText(cs[i])]

\* update_creative_list: every creative gets a row
UpdateCreativeList(cs) == Rows(cs)

\* filter_creatives: the rows inserted before the loop ended or raised
FilterCreatives(cs, term) == Rows(Filtered(cs, LowerText(term)).list)

\* display_creative: current_markup and current_type
DisplayCreative(c) ==
    IF ParseAdResponse(c.markup).error # ""
    THEN [markup |-> <<>>, type |-> "unknown"]
    ELSE [markup |-> ParseAdResponse(c.markup).creative,
          type |-> ParseAdResponse(c.markup).type]

\* ------------------------------------------------------ the network dropdown
\* an ad network of the Savanna API: its 'name' and its 'id' (texts; <<>> is
\* a missing or empty value)
Network(n, i) == [name |-> n, id |-> i]

Alpha == Network(<<"alpha">>, <<"101">>)
Beta == Network(<<"beta">>, <<"102">>)
Nameless == Network(<<>>, <<"103">>)

\* answers of GET /ad-networks: status 0 is an exception
NetworkAnswer(st, ns) == [status |-> st, networks |-> ns]

\* the first networks, for the initial load
InitialAnswers ==
    { NetworkAnswer(0, <<>>), NetworkAnswer(500, <<>>), NetworkAnswer(200, <<>>),
      NetworkAnswer(200, <<Alpha>>), NetworkAnswer(200, <<Beta, Alpha>>),
      NetworkAnswer(200, <<Nameless>>) }

\* the search terms typed into the dropdown and the networks whose name is
\* like them
NetworkSearchTerms == { <<"a">>, <<"al">>, <<"be">>, <<"zz">> }

SearchAnswers(term) ==
    { NetworkAnswer(0, <<>>), NetworkAnswer(500, <<>>), NetworkAnswer(200, <<>>) }
    \cup (IF term = <<"al">> THEN { NetworkAnswer(200, <<Alpha>>) } ELSE {})
    \cup (IF term = <<"be">> THEN { NetworkAnswer(200, <<Beta>>) } ELSE {})

\* len(search_term): the term's characters
TermLength(term) == IF term = <<"a">> THEN 1 ELSE 2

\* the networks with a name and an id
Named(ns) == SelectSeq(ns, LAMBDA n : Truthy(n.name) /\ Truthy(n.id))

\* network_options
NetworkOptions(ns) == [i \in 1..Len(Named(ns)) |-> Named(ns)[i].name]

\* the dict built by the loop: name -> id
NetworkIdMap(ns) ==
    [name \in { Named(ns)[i].name : i \in 1..Len(Named(ns)) } |->
        (CHOOSE n \in { Named(ns)[i] : i \in 1..Len(Named(ns)) } : n.name = name).id]

EmptyMap == NetworkIdMap(<<>>)

\* the answer rebuilds network_id_map only when it is 200 with networks
RebuildsMap(a) == a.status = 200 /\ a.networks # <<>>

\* self.network_id_map after _search_networks_thread has handled the answer
MapAfterAnswer(m, a) == IF RebuildsMap(a) THEN NetworkIdMap(a.networks) ELSE m

\* the network_options handed to _network_search_completed
CompletedOptions(a) == IF RebuildsMap(a) THEN NetworkOptions(a.networks) ELSE <<>>

\* ----------------------------------------------------------------- state
\* op             the caller-facing operation of this run ("none" before it)
\* markup         its argument
\* pc             "idle", "parsed" (display_creative has stored a VAST
\*                creative), "walk" (a walker call is about to run), "done"
\* vast_url, wrapper_count   arguments of the pending walker call
\* doc            body of the last response
\* fetches        the requests.get calls made so far
\* printed        levels printed by the except clauses of the walker
\* walkResult, walkError     what the walker returned / raised
\* ret, escaped   what the operation returned / the exception that left it
\* envelope, parsed   argument and result of parse_ad_response
NoCompanionInfo == [found |-> FALSE, items |-> <<>>, html |-> <<>>]

NoMarkup == Markup(None, None, FALSE, <<>>, None, None, None, <<>>)

NoResult == Parsed("", None, None, None)

\* the locals of one call of extract_vast_url or extract_vast_click_through
\* and of the walker calls below it:
\*   kind            "media" or "click" ("none": the call has not begun)
\*   markup          the argument
\*   vast_url, wrapper_count   arguments of the pending walker call
\*   fetches         the requests.get calls of this call
\*   pc              "idle", "walk", "done"
\*   out, ret        what the walker returned / raised, what the call returned
Frame(k, m, u, wc, fs, p, o, rt) ==
    [kind |-> k, markup |-> m, vast_url |-> u, wrapper_count |-> wc,
     fetches |-> fs, pc |-> p, out |-> o, ret |-> rt]

NoFrame == Frame("none", NoMarkup, <<>>, 0, <<>>, "idle", Return(None), None)

Callers == 1..MaxCalls

Init ==
    /\ op = "none"
    /\ markup = NoMarkup
    /\ pc = "idle"
    /\ vast_url = <<>>
    /\ wrapper_count = 0
    /\ doc = NoDoc
    /\ fetches = <<>>
    /\ printed = <<>>
    /\ walkResult = None
    /\ walkError = NoError
    /\ ret = None
    /\ escaped = NoError
    /\ companion_info = NoCompanionInfo
    /\ envelope = NoEnvelope
    /\ parsed = NoResult
    /\ bearer_token = NoToken
    /\ authorization = NoHeader
    /\ token_expiry = "None"
    /\ client_op = "none"
    /\ sent = <<>>
    /\ refreshed = "not called"
    /\ client_ret = None
    /\ run_job_button = "normal"
    /\ job_thread = "none"
    /\ after_queue = <<>>
    /\ monitoring_active = FALSE
    /\ current_run_id = 0
    /\ runs_started = 0
    /\ polls = 0
    /\ terminal_seen = {}
    /\ creatives = <<>>
    /\ creative_listbox = <<>>
    /\ search_var = <<>>
    /\ curselection = 0
    /\ selected_creative = NoCreative
    /\ current_markup = None
    /\ current_type = ""
    /\ list_op = "none"
    /\ network_id_map = EmptyMap
    /\ dropdown_values = <<>>
    /\ network_dropdown_var = <<>>
    /\ unified_ad_network_id_var = <<>>
    /\ networks_loaded = FALSE
    /\ load_thread = [pc |-> "none", answer |-> NetworkAnswer(0, <<>>)]
    /\ search_timer = None
    /\ net_queue = <<>>
    /\ net_op = "none"
    /\ calls = [c \in Callers |-> NoFrame]
    /\ served = {}

\* display_creative: parse_ad_response on the selected creative's markup;
\* its creative becomes current_markup, which show_vast_preview hands to
\* extract_vast_url when the type is 'vast'
parse_ad_response ==
    /\ pc = "idle"
    /\ op' = "parse"
    /\ \E e \in Envelopes :
          /\ envelope' = e
          /\ parsed' = ParseAdResponse(e)
          /\ pc' = IF ParseAdResponse(e).type = "vast" THEN "parsed" ELSE "done"
    /\ UNCHANGED <<markup, vast_url, wrapper_count, doc, fetches, printed,
                   walkResult, walkError, ret, escaped, companion_info>>
    /\ UNCHANGED beyondResolver

\* extract_vast_url up to the call of _process_vast_chain, or the whole of
\* it on a markup without VASTAdTagURI; the markup is any markup, or the
\* creative the parser returned
extract_vast_url ==
    /\ pc \in { "idle", "parsed" }
    /\ op' = "media"
    /\ \E m \in (IF pc = "idle" THEN WrapperMarkups \cup DirectMarkups
                 ELSE { ScanMarkup(parsed.creative) }) :
          /\ markup' = m
          /\ \/ /\ VastAdTag(m) # None
                /\ vast_url' = HtmlUnescape(VastAdTag(m))
                /\ wrapper_count' = 0
                /\ pc' = "walk"
                /\ UNCHANGED <<ret, escaped>>
             \/ /\ VastAdTag(m) = None
                /\ ret' = DirectVast(m).value
                /\ escaped' = DirectVast(m).error
                /\ pc' = "done"
                /\ UNCHANGED <<vast_url, wrapper_count>>
    /\ UNCHANGED <<doc, fetches, printed, walkResult, walkError, companion_info,
                   envelope, parsed>>
    /\ UNCHANGED beyondResolver

\* except Exception in extract_vast_url: the walker's result, or the wrapper
\* URL when the walker raised
MediaReturn(m, out) == IF out.kind = "raise" THEN ChainFailureFallback(m) ELSE out.value

\* one call of _process_vast_chain(vast_url, wrapper_count); when it returns
\* or raises, every enclosing call and extract_vast_url end with it
_process_vast_chain ==
    /\ pc = "walk" /\ op = "media"
    /\ \/ /\ HopLimitExceeded(wrapper_count)
          /\ walkError' = Raise(ExceededMsg)
          /\ printed' = PrintedFromHopLimit(wrapper_count)
          /\ ret' = MediaReturn(markup, Raised(Raise(ExceededMsg)))
          /\ pc' = "done"
          /\ UNCHANGED <<vast_url, wrapper_count, doc, fetches, walkResult>>
       \/ /\ ~HopLimitExceeded(wrapper_count)
          /\ Len(fetches) < MaxFetchLog
          /\ \E r \in Responses(vast_url, Docs) :
                /\ fetches' = Append(fetches, FetchEntry(vast_url, wrapper_count, r))
                /\ doc' = r.body
                /\ \/ /\ ProcessVastResponse(r).kind = "recurse"
                      /\ vast_url' = ProcessVastResponse(r).next
                      /\ wrapper_count' = NextWrapperCount(wrapper_count)
                      /\ UNCHANGED <<pc, walkResult, walkError, printed, ret>>
                   \/ /\ ProcessVastResponse(r).kind = "return"
                      /\ walkResult' = ProcessVastResponse(r).value
                      /\ ret' = MediaReturn(markup, ProcessVastResponse(r))
                      /\ pc' = "done"
                      /\ UNCHANGED <<vast_url, wrapper_count, walkError, printed>>
                   \/ /\ ProcessVastResponse(r).kind = "raise"
                      /\ walkError' = ProcessVastResponse(r).error
                      /\ printed' = PrintedFromTry(wrapper_count)
                      /\ ret' = MediaReturn(markup, ProcessVastResponse(r))
                      /\ pc' = "done"
                      /\ UNCHANGED <<vast_url, wrapper_count, walkResult>>
    /\ UNCHANGED <<op, markup, escaped, companion_info, envelope, parsed>>
    /\ UNCHANGED beyondResolver

\* extract_vast_click_through up to the call of the click walker, or the
\* whole of it on a markup without VASTAdTagURI
extract_vast_click_through ==
    /\ pc = "idle"
    /\ op' = "click"
    /\ \E m \in WrapperClickMarkups \cup ClickMarkups :
          /\ markup' = m
          /\ \/ /\ VastAdTag(m) # None
                /\ vast_url' = HtmlUnescape(VastAdTag(m))
                /\ wrapper_count' = 0
                /\ pc' = "walk"
                /\ UNCHANGED <<ret>>
             \/ /\ VastAdTag(m) = None
                /\ ret' = ClickFallback(m)
                /\ pc' = "done"
                /\ UNCHANGED <<vast_url, wrapper_count>>
    /\ UNCHANGED <<doc, fetches, printed, walkResult, walkError, escaped, companion_info,
                   envelope, parsed>>
    /\ UNCHANGED beyondResolver

\* except Exception in extract_vast_click_through: the walker's result, or
\* the scan of the original markup when the walker raised
ClickReturn(m, out) == IF out.kind = "raise" THEN ClickFallback(m) ELSE out.value

\* one call of _extract_click_through_from_vast_chain(vast_url, wrapper_count);
\* when it returns or raises, every enclosing call and
\* extract_vast_click_through end with it
_extract_click_through_from_vast_chain ==
    /\ pc = "walk" /\ op = "click"
    /\ \/ /\ ClickHopLimitExceeded(wrapper_count)
          /\ walkError' = Raise(ExceededMsg)
          /\ printed' = PrintedFromHopLimit(wrapper_count)
          /\ ret' = ClickReturn(markup, Raised(Raise(ExceededMsg)))
          /\ pc' = "done"
          /\ UNCHANGED <<vast_url, wrapper_count, doc, fetches, walkResult>>
       \/ /\ ~ClickHopLimitExceeded(wrapper_count)
          /\ Len(fetches) < MaxFetchLog
          /\ \E r \in Responses(vast_url, ClickDocs) :
                /\ fetches' = Append(fetches, FetchEntry(vast_url, wrapper_count, r))
                /\ doc' = r.body
                /\ \/ /\ ClickThroughResponse(r).kind = "recurse"
                      /\ vast_url' = ClickThroughResponse(r).next
                      /\ wrapper_count' = wrapper_count + 1
                      /\ UNCHANGED <<pc, walkResult, walkError, printed, ret>>
                   \/ /\ ClickThroughResponse(r).kind = "return"
                      /\ walkResult' = ClickThroughResponse(r).value
                      /\ ret' = ClickReturn(markup, ClickThroughResponse(r))
                      /\ pc' = "done"
                      /\ UNCHANGED <<vast_url, wrapper_count, walkError, printed>>
                   \/ /\ ClickThroughResponse(r).kind = "raise"
                      /\ walkError' = ClickThroughResponse(r).error
                      /\ printed' = PrintedFromTry(wrapper_count)
                      /\ ret' = ClickReturn(markup, ClickThroughResponse(r))
                      /\ pc' = "done"
                      /\ UNCHANGED <<vast_url, wrapper_count, walkResult>>
    /\ UNCHANGED <<op, markup, escaped, companion_info, envelope, parsed>>
    /\ UNCHANGED beyondResolver

_extract_companion_ad_info ==
    /\ pc = "idle"
    /\ op' = "companion"
    /\ \E m \in CompanionMarkups :
          /\ markup' = m
          /\ companion_info' = CompanionInfo(m)
    /\ pc' = "done"
    /\ UNCHANGED <<vast_url, wrapper_count, doc, fetches, printed,
                   walkResult, walkError, ret, escaped, envelope, parsed>>
    /\ UNCHANGED beyondResolver

Next ==
    \/ parse_ad_response
    \/ extract_vast_url
    \/ _process_vast_chain
    \/ extract_vast_click_through
    \/ _extract_click_through_from_vast_chain
    \/ _extract_companion_ad_info

Spec == Init /\ [][Next]_vars

\* every call runs to its end: the walkers are synchronous and each
\* requests.get returns or raises within its timeout of 10 s
FairSpec == Spec /\ WF_vars(Next)

\* ------------------------------------------------- SavannaBearerClient calls
\* an answer that is never asked for needs no choice
Unasked(S) == { CHOOSE x \in S : TRUE }

\* the client as its methods see it
Client == ClientFields(bearer_token, authorization, token_expiry)

\* the fields after a method has run
StoreClient(c) ==
    /\ bearer_token' = c.bearer_token
    /\ authorization' = c.authorization
    /\ token_expiry' = c.token_expiry

\* SavannaBearerClient(): the loaded token goes into the session headers,
\* then _ensure_valid_token runs
__init__ ==
    /\ client_op = "none"
    /\ client_op' = "__init__"
    /\ \E t \in Tokens, f \in FeathersResponses, p \in PromptOutcomes :
          LET e == EnsureValidToken(ClientFields(t, Bearer(t), "None"), f, p)
          IN  /\ StoreClient(e.client)
              /\ sent' = e.sent
    /\ refreshed' = "not called"
    /\ client_ret' = None
    /\ UNCHANGED beyondClient

refresh_token_if_needed ==
    /\ client_op # "none"
    /\ client_op' = "refresh_token_if_needed"
    /\ \E f \in FeathersResponses, p \in PromptOutcomes :
          LET r == RefreshTokenIfNeeded(Client, f, p)
          IN  /\ StoreClient(r.client)
              /\ sent' = r.sent
              /\ client_ret' = <<r.ret>>
    /\ refreshed' = "not called"
    /\ UNCHANGED beyondClient

_refresh_token ==
    /\ client_op # "none"
    /\ client_op' = "_refresh_token"
    /\ \E f \in FeathersResponses, p \in PromptOutcomes :
          LET r == RefreshToken(Client, f, p)
          IN  /\ StoreClient(r.client)
              /\ sent' = r.sent
              /\ client_ret' = IF r.raised THEN <<"raised">> ELSE <<r.ret>>
    /\ refreshed' = "not called"
    /\ UNCHANGED beyondClient

_update_token ==
    /\ client_op # "none"
    /\ client_op' = "_update_token"
    /\ \E t \in Tokens : StoreClient(UpdateToken(Client, t))
    /\ sent' = <<>>
    /\ refreshed' = "not called"
    /\ client_ret' = None
    /\ UNCHANGED beyondClient

post_to_creative_pulling ==
    /\ client_op # "none"
    /\ client_op' = "post_to_creative_pulling"
    /\ \E d \in CreativeData :
       \E r1 \in PostResponses(d) :
       \E f \in (IF r1.status = 401 THEN FeathersResponses
                 ELSE Unasked(FeathersResponses)),
          p \in (IF r1.status = 401 THEN PromptOutcomes ELSE Unasked(PromptOutcomes)),
          r2 \in (IF r1.status = 401 THEN PostResponses(d)
                  ELSE Unasked(PostResponses(d))) :
          LET r == PostToCreativePulling(Client, d, r1, f, p, r2)
          IN  /\ StoreClient(r.client)
              /\ sent' = r.sent
              /\ refreshed' = r.refreshed
              /\ client_ret' = r.ret
    /\ UNCHANGED beyondClient

smart_post_to_creative_pulling ==
    /\ client_op # "none"
    /\ client_op' = "smart_post_to_creative_pulling"
    /\ \E d \in CreativeData, f \in FeathersResponses, p \in PromptOutcomes :
       \E r1 \in (IF Falsy(EnsureValidToken(Client, f, p).ret)
                  THEN Unasked(PostResponses(d)) ELSE PostResponses(d)) :
       \E r2 \in (IF r1.status = 401 THEN PostResponses(d)
                  ELSE Unasked(PostResponses(d))) :
          LET r == SmartPostToCreativePulling(Client, d, r1, f, p, r2)
          IN  /\ StoreClient(r.client)
              /\ sent' = r.sent
              /\ refreshed' = r.refreshed
              /\ client_ret' = r.ret
    /\ UNCHANGED beyondClient

ClientNext ==
    \/ __init__
    \/ refresh_token_if_needed
    \/ _refresh_token
    \/ _update_token
    \/ post_to_creative_pulling
    \/ smart_post_to_creative_pulling

ClientSpec == Init /\ [][ClientNext]_vars

\* ------------------------------------------------------------ job runner steps
\* the Run Job button is pressed: the dates are checked, the button is
\* disabled and the thread is started (or fails to start)
run_job ==
    /\ run_job_button = "normal"
    /\ runs_started < MaxRuns
    /\ \E dates \in { "missing", "malformed", "valid" }, started \in BOOLEAN :
          IF dates # "valid"
          THEN UNCHANGED <<run_job_button, job_thread, runs_started, polls>>
          ELSE /\ run_job_button' = IF started THEN "disabled" ELSE "normal"
               /\ job_thread' = IF started THEN "running" ELSE "none"
               /\ runs_started' = IF started THEN runs_started + 1 ELSE runs_started
               /\ polls' = IF started THEN 0 ELSE polls
    /\ UNCHANGED <<after_queue, monitoring_active, current_run_id, terminal_seen>>
    /\ UNCHANGED beyondJob

\* the background thread: two status updates, then ("posting") the request
\* to jobs/run-now and the callbacks that follow its answer
_run_job_thread ==
    /\ \/ /\ job_thread = "running"
          /\ job_thread' = "posting"
          /\ after_queue' = after_queue \o <<StatusUpdate, StatusUpdate>>
       \/ /\ job_thread = "posting"
          /\ job_thread' = "none"
          /\ \E status \in RunNowResponses :
                after_queue' = after_queue \o RunJobThread(runs_started, status)
    /\ UNCHANGED <<run_job_button, monitoring_active, current_run_id, runs_started,
                   polls, terminal_seen>>
    /\ UNCHANGED beyondJob

\* the main loop runs the callback at the head of the queue
Due(f) == after_queue # <<>> /\ Head(after_queue).fn = f

_update_job_status ==
    /\ Due("_update_job_status")
    /\ after_queue' = Tail(after_queue)
    /\ UNCHANGED <<run_job_button, job_thread, monitoring_active, current_run_id,
                   runs_started, polls, terminal_seen>>
    /\ UNCHANGED beyondJob

_start_job_monitoring ==
    /\ Due("_start_job_monitoring")
    /\ current_run_id' = Head(after_queue).run
    /\ monitoring_active' = TRUE
    /\ after_queue' =
          Append(Tail(after_queue), Callback("_monitor_job_progress", Head(after_queue).run))
    /\ UNCHANGED <<run_job_button, job_thread, runs_started, polls, terminal_seen>>
    /\ UNCHANGED beyondJob

_monitor_job_progress ==
    /\ Due("_monitor_job_progress")
    /\ IF ~monitoring_active
       THEN /\ after_queue' = Tail(after_queue)
            /\ UNCHANGED <<monitoring_active, polls, terminal_seen>>
       ELSE \E r \in RunStates :
               LET out == MonitorJobProgress(Head(after_queue).run, r)
               IN  /\ (out.monitoring => polls < MaxPolls)
                   /\ after_queue' = Tail(after_queue) \o out.schedule
                   /\ monitoring_active' = out.monitoring
                   /\ polls' = IF out.monitoring THEN polls + 1 ELSE polls
                   /\ terminal_seen' =
                         IF out.terminal
                         THEN terminal_seen \cup { Head(after_queue).run }
                         ELSE terminal_seen
    /\ UNCHANGED <<run_job_button, job_thread, current_run_id, runs_started>>
    /\ UNCHANGED beyondJob

\* the three callbacks that end a run
Completion(f) ==
    /\ Due(f)
    /\ after_queue' = Tail(after_queue)
    /\ run_job_button' = "normal"
    /\ monitoring_active' = FALSE
    /\ UNCHANGED <<job_thread, current_run_id, runs_started, polls, terminal_seen>>
    /\ UNCHANGED beyondJob

_job_completed_successfully == Completion("_job_completed_successfully")

_job_completed_with_error == Completion("_job_completed_with_error")

_job_failed == Completion("_job_failed")

JobNext ==
    \/ run_job
    \/ _run_job_thread
    \/ _update_job_status
    \/ _start_job_monitoring
    \/ _monitor_job_progress
    \/ _job_completed_successfully
    \/ _job_completed_with_error
    \/ _job_failed

JobSpec == Init /\ [][JobNext]_vars

\* ---------------------------------------------------- creative list handlers
\* on_data_loaded(creatives): the rows of a load or of Refresh DB
on_data_loaded ==
    /\ list_op' = "on_data_loaded"
    /\ \E cs \in CreativeLists :
          /\ creatives' = cs
          /\ creative_listbox' = UpdateCreativeList(cs)
    /\ curselection' = 0
    /\ UNCHANGED <<search_var, selected_creative, current_markup, current_type>>
    /\ UNCHANGED beyondList

\* a key is released in the search entry: the entry's text has changed and
\* filter_creatives runs
filter_creatives ==
    /\ list_op' = "filter_creatives"
    /\ \E term \in SearchTerms :
          /\ search_var' = term
          /\ creative_listbox' = FilterCreatives(creatives, term)
    /\ curselection' = 0
    /\ UNCHANGED <<creatives, selected_creative, current_markup, current_type>>
    /\ UNCHANGED beyondList

\* a row of the listbox is clicked: on_creative_select, then display_creative
on_creative_select ==
    /\ list_op' = "on_creative_select"
    /\ \E row \in 1..Len(creative_listbox) :
          LET f == Filtered(creatives, LowerText(search_var))
          IN  /\ curselection' = row
              /\ IF ~f.raised /\ row - 1 < Len(f.list)
                 THEN /\ selected_creative' = f.list[row]
                      /\ current_markup' = DisplayCreative(f.list[row]).markup
                      /\ current_type' = DisplayCreative(f.list[row]).type
                 ELSE UNCHANGED <<selected_creative, current_markup, current_type>>
    /\ UNCHANGED <<creatives, creative_listbox, search_var>>
    /\ UNCHANGED beyondList

ListNext ==
    \/ on_data_loaded
    \/ filter_creatives
    \/ on_creative_select

ListSpec == Init /\ [][ListNext]_vars

\* ------------------------------------------------- network dropdown handlers
\* _load_initial_networks (save mode is entered, or the fields are cleared):
\* the background thread is started unless networks are loaded
_load_initial_networks ==
    /\ load_thread.pc = "none"
    /\ ~networks_loaded
    /\ load_thread' = [load_thread EXCEPT !.pc = "get"]
    /\ net_op' = "_load_initial_networks"
    /\ UNCHANGED <<network_id_map, dropdown_values, network_dropdown_var,
                   unified_ad_network_id_var, networks_loaded, search_timer, net_queue>>
    /\ UNCHANGED beyondNet

\* _search_networks_thread("", True) in its own thread: the request, the
\* assignment self.network_id_map = {}, the loop that fills it, and the
\* root.after that hands the options to the main loop
initial_load_thread ==
    /\ \/ /\ load_thread.pc = "get"
          /\ \E a \in InitialAnswers :
                load_thread' = [pc |-> IF RebuildsMap(a) THEN "fill" ELSE "after",
                                answer |-> a]
          /\ network_id_map' = IF RebuildsMap(load_thread'.answer)
                               THEN EmptyMap ELSE network_id_map
          /\ UNCHANGED net_queue
       \/ /\ load_thread.pc = "fill"
          /\ network_id_map' = MapAfterAnswer(network_id_map, load_thread.answer)
          /\ load_thread' = [load_thread EXCEPT !.pc = "after"]
          /\ UNCHANGED net_queue
       \/ /\ load_thread.pc = "after"
          /\ Len(net_queue) < MaxPending
          /\ net_queue' = Append(net_queue, CompletedOptions(load_thread.answer))
          /\ load_thread' = [load_thread EXCEPT !.pc = "none"]
          /\ UNCHANGED network_id_map
    /\ net_op' = "initial_load_thread"
    /\ UNCHANGED <<dropdown_values, network_dropdown_var, unified_ad_network_id_var,
                   networks_loaded, search_timer>>
    /\ UNCHANGED beyondNet

\* on_network_search_change: a key is released in the dropdown; the pending
\* timer is cancelled and, for two characters or more, a new one is set
on_network_search_change ==
    /\ \E term \in NetworkSearchTerms :
          /\ network_dropdown_var' = term
          /\ search_timer' = IF TermLength(term) < 2 THEN None ELSE term
    /\ net_op' = "on_network_search_change"
    /\ UNCHANGED <<network_id_map, dropdown_values, unified_ad_network_id_var,
                   networks_loaded, load_thread, net_queue>>
    /\ UNCHANGED beyondNet

\* the timer fires: _search_networks_thread(search_term) runs in the main
\* loop, request and all
_search_networks_thread ==
    /\ search_timer # None
    /\ Len(net_queue) < MaxPending
    /\ \E a \in SearchAnswers(search_timer) :
          /\ network_id_map' = MapAfterAnswer(network_id_map, a)
          /\ net_queue' = Append(net_queue, CompletedOptions(a))
    /\ search_timer' = None
    /\ net_op' = "_search_networks_thread"
    /\ UNCHANGED <<dropdown_values, network_dropdown_var, unified_ad_network_id_var,
                   networks_loaded, load_thread>>
    /\ UNCHANGED beyondNet

\* _network_search_completed(network_options, status_message)
_network_search_completed ==
    /\ net_queue # <<>>
    /\ dropdown_values' = Head(net_queue)
    /\ net_queue' = Tail(net_queue)
    /\ network_dropdown_var' = <<>>
    /\ networks_loaded' = IF Head(net_queue) # <<>> THEN TRUE ELSE networks_loaded
    /\ net_op' = "_network_search_completed"
    /\ UNCHANGED <<network_id_map, unified_ad_network_id_var, load_thread, search_timer>>
    /\ UNCHANGED beyondNet

\* on_network_selected: an offered name is picked from the dropdown
on_network_selected ==
    /\ \E i \in 1..Len(dropdown_values) :
          /\ network_dropdown_var' = dropdown_values[i]
          /\ unified_ad_network_id_var' =
                IF dropdown_values[i] \in DOMAIN network_id_map
                THEN network_id_map[dropdown_values[i]]
                ELSE unified_ad_network_id_var
    /\ net_op' = "on_network_selected"
    /\ UNCHANGED <<network_id_map, dropdown_values, networks_loaded, load_thread,
                   search_timer, net_queue>>
    /\ UNCHANGED beyondNet

NetNext ==
    \/ _load_initial_networks
    \/ initial_load_thread
    \/ on_network_search_change
    \/ _search_networks_thread
    \/ _network_search_completed
    \/ on_network_selected

NetSpec == Init /\ [][NetNext]_vars

\* ------------------------------------------------ resolutions side by side
\* show_preview and show_vast_preview let a resolution begin: a VAST
\* creative is displayed
Previewable(m, ty) == Truthy(m) /\ ty = "vast"

\* the bodies the server holds
CallDocs ==
    BadXmlDocs \cup NeitherDocs
    \cup { Document(TRUE, FALSE, FALSE, <<>>, None, TRUE, t, WrapperClick) :
             t \in { None, <<" ">>, <<" ", "u2", " ">> } }
    \cup { Document(TRUE, TRUE, FALSE, <<>>, None, FALSE, None, None),
           Document(TRUE, TRUE, TRUE, <<>>, None, FALSE, None, None),
           Document(TRUE, TRUE, TRUE, <<MediaFile(<<" ", "c", ".mp4", " ">>, "", None)>>,
                    <<" ", "c1", " ">>, FALSE, None, None),
           Document(TRUE, TRUE, TRUE, <<MediaFile(<<" ", "c", ".mp4", " ">>, "", None)>>,
                    <<"c2">>, TRUE, <<"u1">>, WrapperClick) }

\* the server: its answer to the request for uri made at a level of the chain
Served(level, u, r) == [level |-> level, uri |-> u, response |-> r]

\* requests.get(vast_url, timeout=10) against the server: the answer it gave
\* before, or any answer
Answers(s, level, u) ==
    IF \E e \in s : e.level = level /\ e.uri = u
    THEN { e.response : e \in { x \in s : x.level = level /\ x.uri = u } }
    ELSE IF u = <<>> THEN { Response(0, NoDoc) }
    ELSE { Response(0, NoDoc), Response(404, NoDoc) }
         \cup { Response(200, d) : d \in CallDocs }

\* mutant: vast_url and wrapper_count are kept in one place for all calls
Locals_Shared(cs, c) ==
    [vast_url |-> cs[1].vast_url, wrapper_count |-> cs[1].wrapper_count]

\* the parameters vast_url and wrapper_count of a walker call
Locals(cs, c) ==
    [vast_url |-> cs[c].vast_url, wrapper_count |-> cs[c].wrapper_count]

\* the call ends: out is what the walker did, rt what the caller gets
Ended(f, o, rt) == [f EXCEPT !.pc = "done", !.out = o, !.ret = rt]

\* one call of _process_vast_chain(vast_url, wrapper_count) in frame f; ans
\* is the answer to its request
MediaStep(f, l, ans) ==
    IF HopLimitExceeded(l.wrapper_count)
    THEN Ended([f EXCEPT !.wrapper_count = l.wrapper_count],
               Raised(Raise(ExceededMsg)),
               MediaReturn(f.markup, Raised(Raise(ExceededMsg))))
    ELSE LET g == [f EXCEPT !.fetches = Append(@, FetchEntry(l.vast_url, l.wrapper_count, ans)),
                            !.vast_url = l.vast_url,
                            !.wrapper_count = l.wrapper_count]
             o == ProcessVastResponse(ans)
         IN  IF o.kind = "recurse"
             THEN [g EXCEPT !.vast_url = o.next,
                            !.wrapper_count = NextWrapperCount(l.wrapper_count)]
             ELSE Ended(g, o, MediaReturn(f.markup, o))

\* one call of _extract_click_through_from_vast_chain(vast_url, wrapper_count)
ClickStep(f, l, ans) ==
    IF ClickHopLimitExceeded(l.wrapper_count)
    THEN Ended([f EXCEPT !.wrapper_count = l.wrapper_count],
               Raised(Raise(ExceededMsg)),
               ClickReturn(f.markup, Raised(Raise(ExceededMsg))))
    ELSE LET g == [f EXCEPT !.fetches = Append(@, FetchEntry(l.vast_url, l.wrapper_count, ans)),
                            !.vast_url = l.vast_url,
                            !.wrapper_count = l.wrapper_count]
             o == ClickThroughResponse(ans)
         IN  IF o.kind = "recurse"
             THEN [g EXCEPT !.vast_url = o.next,
                            !.wrapper_count = l.wrapper_count + 1]
             ELSE Ended(g, o, ClickReturn(f.markup, o))

\* ------------------------------------------ resolutions run side by side
\* show_vast_preview, caller c: extract_vast_url(self.current_markup) up to
\* its call of _process_vast_chain, or the whole of it on a markup without
\* VASTAdTagURI
call_extract_vast_url(c) ==
    /\ calls[c].pc = "idle"
    /\ Previewable(current_markup, current_type)
    /\ LET m == ScanMarkup(current_markup)
       IN  calls' = [calls EXCEPT ![c] =
              IF VastAdTag(m) # None
              THEN Frame("media", m, HtmlUnescape(VastAdTag(m)), 0, <<>>, "walk",
                         Return(None), None)
              ELSE Frame("media", m, <<>>, 0, <<>>, "done", DirectVast(m),
                         DirectVast(m).value)]
    /\ UNCHANGED served
    /\ UNCHANGED beyondCalls

\* show_vast_preview, caller c: extract_vast_click_through(self.current_markup)
\* up to its call of the click walker, or the whole of it
call_extract_vast_click_through(c) ==
    /\ calls[c].pc = "idle"
    /\ Previewable(current_markup, current_type)
    /\ LET m == ScanMarkup(current_markup)
       IN  calls' = [calls EXCEPT ![c] =
              IF VastAdTag(m) # None
              THEN Frame("click", m, HtmlUnescape(VastAdTag(m)), 0, <<>>, "walk",
                         Return(None), None)
              ELSE Frame("click", m, <<>>, 0, <<>>, "done", Return(ClickFallback(m)),
                         ClickFallback(m))]
    /\ UNCHANGED served
    /\ UNCHANGED beyondCalls

\* the next call of _process_vast_chain of caller c, up to its recursive
\* call, its return or its raise
call_process_vast_chain(c) ==
    /\ calls[c].pc = "walk" /\ calls[c].kind = "media"
    /\ LET l == Locals(calls, c)
       IN  \E ans \in Answers(served, l.wrapper_count, l.vast_url) :
              /\ calls' = [calls EXCEPT ![c] = MediaStep(calls[c], l, ans)]
              /\ served' = IF HopLimitExceeded(l.wrapper_count) THEN served
                           ELSE served \cup { Served(l.wrapper_count, l.vast_url, ans) }
    /\ UNCHANGED beyondCalls

\* the next call of _extract_click_through_from_vast_chain of caller c
call_extract_click_through_from_vast_chain(c) ==
    /\ calls[c].pc = "walk" /\ calls[c].kind = "click"
    /\ LET l == Locals(calls, c)
       IN  \E ans \in Answers(served, l.wrapper_count, l.vast_url) :
              /\ calls' = [calls EXCEPT ![c] = ClickStep(calls[c], l, ans)]
              /\ served' = IF ClickHopLimitExceeded(l.wrapper_count) THEN served
                           ELSE served \cup { Served(l.wrapper_count, l.vast_url, ans) }
    /\ UNCHANGED beyondCalls

\* no call has begun: the handlers of the creative list run on the main
\* loop, which a preview occupies until it is shown
NoCallBegun == \A c \in Callers : calls[c].pc = "idle"

CallNext ==
    \/ NoCallBegun /\ on_data_loaded
    \/ NoCallBegun /\ on_creative_select
    \/ \E c \in Callers : call_extract_vast_url(c)
    \/ \E c \in Callers : call_extract_vast_click_through(c)
    \/ \E c \in Callers : call_process_vast_chain(c)
    \/ \E c \in Callers : call_extract_click_through_from_vast_chain(c)

CallSpec == Init /\ [][CallNext]_vars

\* ---------------------------------------------------------------- claims
\* the walker of this run has returned or raised
WalkEnded == pc = "done" /\ (fetches # <<>> \/ walkError # NoError)

LastFetch == fetches[Len(fetches)]

\* the walk was served k documents, every one a Wrapper with a next-hop URI
WrapperHops(k) ==
    /\ Len(fetches) = k
    /\ \A i \in 1..k : fetches[i].status = 200 /\ fetches[i].shape = "wrapper"

\* C1 (as stated): a media walk that ends with the hop-limit error has issued
\* at most 5 fetches.
C1_AtMostFiveFetches ==
    (op = "media" /\ WalkEnded /\ walkError.msg = ExceededMsg)
        => Len(fetches) <= MAX_VAST_WRAPPERS

\* C1 (amended): a media walk fails with the hop-limit error exactly when it
\* was served 6 Wrapper documents one after the other, and it has then issued
\* exactly 6 fetches (levels 0..5): the 7th fetch is never issued.
C1_SixFetchesThenHopLimit ==
    (op = "media" /\ WalkEnded)
        => /\ (walkError.msg = ExceededMsg) <=> WrapperHops(MAX_VAST_WRAPPERS + 1)
           /\ Len(fetches) <= MAX_VAST_WRAPPERS + 1

C1_Witness ==
    /\ op = "media" /\ pc = "done"
    /\ walkError.msg = ExceededMsg
    /\ WrapperHops(6)

\* C2: a media walk that was served N Wrapper documents (0 <= N <= 5) and
\* then an InLine document whose Linear has exactly one qualifying MediaFile,
\* all with status 200, returns that MediaFile's URL, having fetched each
\* document once, in chain order.
C2_ChainReturnsMediaUrl ==
    (/\ op = "media" /\ WalkEnded /\ fetches # <<>>
     /\ \A i \in 1..Len(fetches) : fetches[i].status = 200
     /\ \A i \in 1..(Len(fetches) - 1) : fetches[i].shape = "wrapper"
     /\ LastFetch.shape = "inline" /\ doc.linear
     /\ Len(QualifyingFiles(doc.media)) = 1)
        => /\ walkError = NoError
           /\ walkResult = MediaUrl(QualifyingFiles(doc.media)[1])
           /\ \A i \in 1..Len(fetches) : fetches[i].level = i - 1

\* type is 'video/mp4' or the URL ends with '.mp4', read off the element
IsMp4File(mf) ==
    \/ mf.type = "video/mp4"
    \/ mf.url # None /\ Strip(mf.url) # <<>> /\ Strip(mf.url)[Len(Strip(mf.url))] = ".mp4"

\* the URL of a MediaFile element, as text ('' when it has none)
UrlOfFile(mf) == IF mf.url = None THEN <<>> ELSE Strip(mf.url)

\* t is the URL of an mp4 MediaFile of the list
IsMp4UrlOf(t, media) ==
    \E i \in 1..Len(media) : IsMp4File(media[i]) /\ t = UrlOfFile(media[i])

\* the media walk of this run returned a URL
WalkReturned == WalkEnded /\ walkError = NoError

\* extract_vast_url returned from its structured scan of a direct markup
DirectSelected ==
    /\ VastAdTag(markup) = None /\ markup.xml
    /\ \E i \in 1..Len(markup.media) : IsMp4File(markup.media[i])

\* C3 (as stated): every URL returned by extract_vast_url is the URL of an
\* mp4 MediaFile of the terminal document (chain) or of the markup (direct).
C3_OnlyMp4MediaFileUrls ==
    (op = "media" /\ pc = "done" /\ escaped = NoError /\ ret # None)
        => \/ IsMp4UrlOf(ret, doc.media)
           \/ IsMp4UrlOf(ret, markup.media)

\* C3 (amended): a URL returned by extract_vast_url is the URL of an mp4
\* MediaFile when the chain walk succeeded (terminal InLine) or when the
\* direct markup parses and holds an mp4 MediaFile; when the chain walk
\* failed it is the markup's own entity-decoded VASTAdTagURI; otherwise it is
\* the text of the markup's first MediaFile or URL tag, which ends with .mp4
\* or contains 'video'.  The VASTAdTagURI of a fetched wrapper is never
\* returned.
C3_Mp4UrlOrFallback ==
    (op = "media" /\ pc = "done" /\ escaped = NoError /\ ret # None)
        => /\ (VastAdTag(markup) # None /\ walkError = NoError)
                => LastFetch.shape \in { "inline", "both" } /\ IsMp4UrlOf(ret, doc.media)
           /\ (VastAdTag(markup) # None /\ walkError # NoError)
                => ret = HtmlUnescape(VastAdTag(markup))
           /\ DirectSelected => IsMp4UrlOf(ret, markup.media)
           /\ (VastAdTag(markup) = None /\ ~DirectSelected)
                => /\ \/ markup.media # <<>> /\ ret = UrlOfFile(markup.media[1])
                      \/ markup.urlTag # None /\ ret = Strip(markup.urlTag)
                   /\ ret[Len(ret)] = ".mp4" \/ \E i \in 1..Len(ret) : ret[i] = "video"
           /\ ret \notin { <<"u1">>, <<"u2">> }

C3_Witness ==
    /\ op = "media" /\ pc = "done"
    /\ VastAdTag(markup) # None /\ Len(fetches) = 2
    /\ walkError = NoError
    /\ ret = <<"c", ".mp4">>

\* the declared bitrate of an mp4 MediaFile whose bitrate attribute is
\* missing, empty or an integer
DeclaredBitrate(mf) ==
    IF mf.bitrate = None \/ mf.bitrate = <<>> THEN 0 ELSE IntOf(mf.bitrate)

BitrateDeclared(mf) == mf.bitrate = None \/ mf.bitrate = <<>> \/ IntParses(mf.bitrate)

\* t is the URL of an mp4 MediaFile of the list with the highest bitrate
IsHighestBitrateUrl(t, media) ==
    \E i \in 1..Len(media) :
        /\ IsMp4File(media[i]) /\ t = UrlOfFile(media[i])
        /\ \A j \in 1..Len(media) :
              IsMp4File(media[j]) => DeclaredBitrate(media[j]) <= DeclaredBitrate(media[i])

\* the list holds an mp4 MediaFile and every mp4 MediaFile declares a bitrate
Selectable(media) ==
    /\ \E i \in 1..Len(media) : IsMp4File(media[i])
    /\ \A i \in 1..Len(media) : IsMp4File(media[i]) => BitrateDeclared(media[i])

\* C4: when the walk ends at an InLine whose Linear holds mp4 MediaFiles with
\* declared bitrates, it returns the URL of one with the highest bitrate,
\* whatever their order; so does extract_vast_url on a direct markup.
C4_HighestBitrateWins ==
    /\ (/\ op = "media" /\ WalkEnded /\ fetches # <<>>
        /\ LastFetch.shape \in { "inline", "both" } /\ doc.linear /\ Selectable(doc.media))
         => walkError = NoError /\ IsHighestBitrateUrl(walkResult, doc.media)
    /\ (/\ op = "media" /\ pc = "done" /\ VastAdTag(markup) = None
        /\ markup.xml /\ Selectable(markup.media))
         => escaped = NoError /\ IsHighestBitrateUrl(ret, markup.media)

C4_Witness ==
    /\ op = "media" /\ pc = "done" /\ fetches # <<>>
    /\ Len(doc.media) = 2
    /\ doc.media[1].bitrate = <<"5", "0", "0">>
    /\ doc.media[2].bitrate = <<"1", "2", "0", "0">>
    /\ IsMp4File(doc.media[1]) /\ IsMp4File(doc.media[2])
    /\ ret = <<"b", ".mp4">>

\* the click-through of the terminal InLine's Linear, None when it has none
TerminalClick ==
    IF fetches # <<>> /\ LastFetch.shape \in { "inline", "both" } /\ doc.linear
       /\ doc.click # None /\ doc.click # <<>>
    THEN Strip(doc.click)
    ELSE None

\* C5 (as stated): for a wrapper markup extract_vast_click_through returns
\* only the terminal InLine's click-through (or nothing), whether the walk
\* succeeds or fails.
C5_OnlyTerminalClickThrough ==
    (op = "click" /\ pc = "done" /\ VastAdTag(markup) # None)
        => ret = TerminalClick

\* C5 (amended): for a wrapper markup, when the chain walk succeeds the
\* result is the terminal InLine's click-through (or nothing); when the walk
\* fails the result is the first ClickThrough, else the first ClickTracking,
\* of the initial markup (or nothing).  A ClickThrough of a fetched wrapper
\* document is never returned.
C5_TerminalClickOrMarkupFallback ==
    (op = "click" /\ pc = "done" /\ VastAdTag(markup) # None)
        => /\ walkError = NoError => ret = TerminalClick
           /\ walkError # NoError =>
                ret = (IF markup.through # None THEN markup.through ELSE markup.tracking)
           /\ ret # WrapperClick

C5_Witness ==
    /\ op = "click" /\ pc = "done" /\ VastAdTag(markup) # None
    /\ Len(fetches) = 3 /\ walkError = NoError
    /\ ret = <<"c1">>

\* C6: an mp4 MediaFile whose bitrate is missing, empty or not an integer
\* counts as bitrate 0: the walk that reaches such an InLine does not fail
\* and returns a highest-bitrate URL, and extract_vast_url on such a direct
\* markup raises nothing.
BitrateOrZero(mf) ==
    IF mf.bitrate # None /\ IntParses(mf.bitrate) THEN IntOf(mf.bitrate) ELSE 0

C6_BadBitrateIsZero ==
    /\ (/\ op = "media" /\ WalkEnded /\ fetches # <<>>
        /\ LastFetch.shape \in { "inline", "both" } /\ doc.linear
        /\ \E i \in 1..Len(doc.media) : IsMp4File(doc.media[i]))
         => /\ walkError = NoError
            /\ \E i \in 1..Len(doc.media) :
                  /\ IsMp4File(doc.media[i]) /\ walkResult = UrlOfFile(doc.media[i])
                  /\ \A j \in 1..Len(doc.media) :
                        IsMp4File(doc.media[j])
                            => BitrateOrZero(doc.media[j]) <= BitrateOrZero(doc.media[i])
    /\ (op = "media" /\ pc = "done" /\ VastAdTag(markup) = None) => escaped = NoError

\* C7: no exception leaves extract_vast_url, extract_vast_click_through or
\* _extract_companion_ad_info.
C7_NoExceptionEscapes == pc = "done" => escaped = NoError

\* C8: a fetch is issued only by a pending walker call, for the single URI
\* that call was given, at the level after the last fetched one; the fetch
\* before it returned 200 with a Wrapper naming that URI; and a fetch that
\* fails or returns a non-200 status ends the walk with an error, after
\* which nothing is fetched.
C8_OneFetchPerLevelNoRetry ==
    [][ /\ fetches' # fetches =>
            /\ pc = "walk"
            /\ Len(fetches') = Len(fetches) + 1
            /\ SubSeq(fetches', 1, Len(fetches)) = fetches
            /\ fetches'[Len(fetches')].level = Len(fetches)
            /\ fetches'[Len(fetches')].uri = vast_url
            /\ fetches # <<>> =>
                  /\ LastFetch.status = 200 /\ LastFetch.shape = "wrapper"
                  /\ fetches'[Len(fetches')].uri = Strip(doc.tag)
            /\ fetches'[Len(fetches')].status # 200 =>
                  pc' = "done" /\ walkError' # NoError
        /\ pc = "done" => fetches' = fetches /\ pc' = "done"
      ]_vars

C8_Witness ==
    /\ pc = "done" /\ op = "media"
    /\ Len(fetches) = 3
    /\ LastFetch.status = 404
    /\ walkError = [msg |-> FetchFailedMsg, status |-> 404]

\* C9: whatever the network serves, a walk issues at most 6 fetches and the
\* operation ends.
C9_WalkTerminates ==
    /\ [](Len(fetches) <= MAX_VAST_WRAPPERS + 1)
    /\ <>(pc = "done")

\* a self-referential chain: the same URI fetched at six levels
C9_Witness ==
    /\ pc = "done" /\ Len(fetches) = 6
    /\ \A i \in 2..6 : fetches[i].uri = <<"u1">> /\ fetches[i].shape = "wrapper"

\* the depth a caller can read from an error: its depth field, if it has one
DepthCarried(e) == IF "depth" \in DOMAIN e THEN e.depth ELSE -1

\* the walk raised an error other than the hop-limit error
WalkFailedAtLevel == WalkEnded /\ walkError # NoError /\ walkError.msg # ExceededMsg

\* C10 (as stated): an error raised for a fetch failure or an XML-structure
\* violation carries the level at which it was raised.
C10_ErrorCarriesDepth ==
    WalkFailedAtLevel => DepthCarried(walkError) = LastFetch.level

\* C10 (amended): an error raised for a fetch failure or an XML-structure
\* violation carries a message naming the failure (and the HTTP status of a
\* non-200 response) and nothing else; the level is only printed, by the
\* except clause of every level from the failing one down to 0.
C10_DepthOnlyPrinted ==
    WalkFailedAtLevel =>
        /\ DOMAIN walkError = { "msg", "status" }
        /\ walkError.msg \in { FetchFailedMsg, InvalidXmlMsg, NoLinearMsg, NoMp4Msg,
                               NoTagMsg, NeitherMsg, RequestExceptionMsg, ValueErrorMsg }
        /\ walkError.msg = FetchFailedMsg => walkError.status = LastFetch.status
        /\ Len(printed) = LastFetch.level + 1
        /\ \A i \in 1..Len(printed) : printed[i] = LastFetch.level + 1 - i

C10_Witness ==
    /\ pc = "done" /\ op = "media"
    /\ walkError.msg = NeitherMsg
    /\ Len(fetches) = 3
    /\ printed = <<2, 1, 0>>

\* the media walk ended at an InLine whose Linear holds no mp4 MediaFile
TerminalWithoutMp4 ==
    /\ op = "media" /\ WalkEnded /\ fetches # <<>>
    /\ LastFetch.shape \in { "inline", "both" } /\ doc.linear
    /\ \A i \in 1..Len(doc.media) : ~IsMp4File(doc.media[i])

\* C11 (as stated): when the terminal InLine's Linear has no MediaFile that
\* is video/mp4-typed or .mp4-suffixed, the resolution fails with the 'No MP4
\* MediaFile found' error and no media URL is returned.
C11_NoMp4FailsWithoutUrl ==
    TerminalWithoutMp4 => walkError.msg = NoMp4Msg /\ ret = None

\* C11 (amended): when the terminal InLine's Linear has no MediaFile that is
\* video/mp4-typed or .mp4-suffixed, the chain walk fails with the 'No MP4
\* MediaFile found' error and returns nothing; extract_vast_url catches the
\* error and returns the markup's own entity-decoded VASTAdTagURI.
C11_NoMp4FailsWrapperUrlReturned ==
    TerminalWithoutMp4 =>
        /\ walkError.msg = NoMp4Msg /\ walkResult = None
        /\ ret # None /\ ret = HtmlUnescape(VastAdTag(markup))
        /\ escaped = NoError

C11_Witness ==
    /\ op = "media" /\ pc = "done" /\ Len(fetches) = 2
    /\ LastFetch.shape = "inline" /\ doc.linear
    /\ Len(doc.media) = 1 /\ doc.media[1].type = "video/webm"
    /\ walkError.msg = NoMp4Msg
    /\ ret = <<"u", "&", "0">>

\* C12: when the first fetched document parses and holds neither an InLine
\* nor a Wrapper element, the walk fails with the 'VAST XML contains neither
\* InLine nor Wrapper Ad element' error, raised by the call at level 0, and
\* that one fetch is the only fetch of the run.
C12_NeitherFailsAtDepthZero ==
    (fetches # <<>> /\ fetches[1].status = 200 /\ fetches[1].shape = "neither")
        => /\ pc = "done"
           /\ Len(fetches) = 1 /\ fetches[1].level = 0
           /\ walkError.msg = NeitherMsg
           /\ walkResult = None
           /\ printed = <<0>>

C12_Witness ==
    /\ op = "media" /\ pc = "done"
    /\ Len(fetches) = 1 /\ fetches[1].shape = "neither"
    /\ walkError.msg = NeitherMsg

\* the walk did not reject the i-th fetched document: it followed it to the
\* next hop, or returned from it
Accepted(i) == i < Len(fetches) \/ walkError = NoError

\* C13 (as stated): every fetched document the walk accepts holds exactly
\* one of InLine and Wrapper, and a document holding neither is rejected.
C13_AcceptedHasExactlyOne ==
    \A i \in 1..Len(fetches) :
        /\ (fetches[i].status = 200 /\ Accepted(i))
              => fetches[i].shape \in { "inline", "wrapper", "wrapper_without_uri" }
        /\ fetches[i].shape = "neither" => ~Accepted(i)

\* C13 (amended): every fetched document the walk accepts holds at least one
\* of InLine and Wrapper; a document holding both is accepted and read as an
\* InLine (it ends the walk, its VASTAdTagURI is not followed); a document
\* holding neither is rejected with the 'neither InLine nor Wrapper' error.
C13_AcceptedHasInLineOrWrapper ==
    \A i \in 1..Len(fetches) :
        /\ Accepted(i)
              => /\ fetches[i].status = 200
                 /\ fetches[i].shape \in { "inline", "wrapper", "both" }
        /\ fetches[i].shape \in { "inline", "both" } => i = Len(fetches) /\ pc = "done"
        /\ fetches[i].shape = "neither"
              => ~Accepted(i) /\ walkError.msg = NeitherMsg

C13_Witness ==
    /\ op = "media" /\ pc = "done" /\ Len(fetches) = 2
    /\ LastFetch.shape = "both"
    /\ walkError = NoError /\ ret = <<"c", ".mp4">>

\* the end-to-end run: an envelope with AdType Value "8" whose payload is a
\* wrapper markup, parsed, its creative resolved, and the first document
\* served is the InLine with MediaFiles at bitrates 320 and 640
EndToEndRun ==
    /\ envelope.typeAt = "ns" /\ envelope.typeValue = <<"8">>
    /\ parsed.error = "" /\ op = "media" /\ pc = "done"
    /\ markup.plain # None
    /\ fetches # <<>> /\ fetches[1].status = 200 /\ fetches[1].shape = "inline"
    /\ doc.media = StubInLine.media

\* the only count of hops the resolver keeps: the depth of the walker call
\* that reached the InLine (printed as 'Level k')
HopCountRecorded == wrapper_count

\* C14 (as stated): the end-to-end run yields type 'vast' and the
\* 640-bitrate URL, with a recorded hop count of 1.
C14_EndToEndHopCountOne ==
    EndToEndRun =>
        /\ parsed.type = "vast"
        /\ ret = <<"hi", ".mp4">>
        /\ HopCountRecorded = 1

\* C14 (amended): the end-to-end run yields type 'vast' and the 640-bitrate
\* URL as the final media URL after exactly one fetch, of the payload's
\* entity-decoded VASTAdTagURI; that fetch is made at level 0, the result is
\* the URL alone and no hop count is recorded with it.
C14_EndToEndOneFetchAtLevelZero ==
    EndToEndRun =>
        /\ parsed.type = "vast"
        /\ ret = <<"hi", ".mp4">> /\ walkResult = ret /\ walkError = NoError
        /\ Len(fetches) = 1 /\ fetches[1].level = 0
        /\ fetches[1].uri \in { <<"u", "&", "0">>, <<"u0">> }
        /\ HopCountRecorded = 0 /\ printed = <<>>

C14_Witness ==
    /\ EndToEndRun
    /\ envelope.nsAd.text = WrapperPayload
    /\ fetches[1].uri = <<"u", "&", "0">>
    /\ ret = <<"hi", ".mp4">>

\* extract_vast_url ran on a markup in which neither VASTAdTagURI pattern
\* matched, and returned
DirectReturned ==
    /\ op = "media" /\ pc = "done" /\ escaped = NoError
    /\ markup.cdata = None /\ markup.plain = None

HoldsMp4File(media) == \E i \in 1..Len(media) : IsMp4File(media[i])

\* a tag text the scan of raw tags accepts: not blank, ends with '.mp4' or
\* contains 'video'
Usable(t) ==
    /\ t # None /\ Strip(t) # <<>>
    /\ \/ Strip(t)[Len(Strip(t))] = ".mp4"
       \/ \E i \in 1..Len(Strip(t)) : Strip(t)[i] = "video"

\* what the scan of the raw MediaFile / URL tags yields for a markup
ScanOfRawTags(m) ==
    IF m.media # <<>> /\ Usable(m.media[1].url) THEN Strip(m.media[1].url)
    ELSE IF Usable(m.urlTag) THEN Strip(m.urlTag)
    ELSE None

\* C15 (as stated): on the direct path, when the markup parses as XML the
\* result is decided by the structured selection alone: an mp4 MediaFile's
\* URL, or nothing when the markup holds no mp4 MediaFile.
C15_RegexOnlyOnParseFailure ==
    (DirectReturned /\ markup.xml)
        => IF HoldsMp4File(markup.media) THEN IsMp4UrlOf(ret, markup.media)
           ELSE ret = None

\* C15 (amended): on the direct path the scan of raw MediaFile/URL tags is
\* used when XML parsing of the markup fails and also when the markup parses
\* but holds no MediaFile that is video/mp4-typed or .mp4-suffixed; only when
\* the markup parses and holds such a MediaFile is the result decided by the
\* structured selection alone (its URL, or the ValueError of an unparsable
\* bitrate), whatever the raw tags hold.
C15_RegexWhenNoCandidate ==
    /\ DirectReturned =>
          IF markup.xml /\ HoldsMp4File(markup.media)
          THEN /\ IsMp4UrlOf(ret, markup.media)
               /\ Selectable(markup.media) => IsHighestBitrateUrl(ret, markup.media)
          ELSE ret = ScanOfRawTags(markup)
    /\ (op = "media" /\ pc = "done" /\ escaped # NoError)
          => /\ markup.cdata = None /\ markup.plain = None /\ markup.xml
             /\ \E i \in 1..Len(markup.media) :
                   IsMp4File(markup.media[i]) /\ ~BitrateDeclared(markup.media[i])

\* the markup parses, holds only a webm MediaFile, and its text is returned
C15_Witness ==
    /\ DirectReturned /\ markup.xml
    /\ Len(markup.media) = 1 /\ markup.media[1].type = "video/webm"
    /\ markup.urlTag = None
    /\ ret = <<"video", "d", ".webm">>

\* group(1) of the first VASTAdTagURI pattern that matches the markup, the
\* CDATA pattern before the plain one (None: neither matches)
EntryTag == IF markup.cdata # None THEN markup.cdata ELSE markup.plain

\* C16: when a VASTAdTagURI pattern matches the markup (the CDATA form tried
\* first), the entity-decoded content is the URI of the first fetch, at level
\* 0, and the result is the walk's result or, when the walk fails, that URI:
\* the markup's own MediaFile elements are not consulted.  Only when neither
\* pattern matches is the markup read as a direct VAST document, and then
\* nothing is fetched.
C16_EntryPointSelection ==
    /\ (op = "media" /\ EntryTag # None) =>
          /\ pc \in { "walk", "done" }
          /\ fetches # <<>> =>
                fetches[1].uri = HtmlUnescape(EntryTag) /\ fetches[1].level = 0
          /\ pc = "done" =>
                /\ fetches # <<>>
                /\ ret = (IF walkError = NoError THEN walkResult ELSE HtmlUnescape(EntryTag))
                /\ ret # <<"own", ".mp4">>
    /\ (op = "media" /\ EntryTag = None) =>
          /\ pc = "done" /\ fetches = <<>> /\ walkError = NoError
          /\ ret \in { None, <<>> } \/ ret = ScanOfRawTags(markup)
                \/ IsMp4UrlOf(ret, markup.media)

C16_Witness ==
    /\ op = "media" /\ pc = "done"
    /\ markup = WrapperMediaMarkup
    /\ fetches[1].uri = <<"u0">> /\ Len(fetches) = 2
    /\ ret = <<"b", ".mp4">>

\* the element is missing, or holds no text
HasNoText(t) == t = None \/ t = <<>>

\* the element is missing, or holds no text but whitespace
HasBlankText(t) == t = None \/ \A i \in 1..Len(t) : t[i] = " "

\* C17: _extract_companion_ad_info yields one descriptor per Companion
\* element, in document order; its image URL (click URL) is null exactly
\* when the companion's StaticResource (CompanionClickThrough) is missing or
\* holds no text, and is the stripped text otherwise; the returned block
\* shows a URL exactly when that text is not blank; nothing is raised, and a
\* markup that does not parse yields 'found: False' with no descriptor.
C17_CompanionDescriptors ==
    (op = "companion" /\ pc = "done") =>
        /\ escaped = NoError
        /\ ~markup.xml => companion_info = [found |-> FALSE, items |-> <<>>, html |-> <<>>]
        /\ markup.xml =>
              /\ companion_info.found = (markup.companions # <<>>)
              /\ Len(companion_info.items) = Len(markup.companions)
              /\ Len(companion_info.html) = Len(markup.companions)
              /\ \A i \in 1..Len(markup.companions) :
                    /\ companion_info.items[i].image_url = None
                          <=> HasNoText(markup.companions[i].static)
                    /\ companion_info.items[i].click_url = None
                          <=> HasNoText(markup.companions[i].click)
                    /\ ~HasNoText(markup.companions[i].static) =>
                          companion_info.items[i].image_url = Strip(markup.companions[i].static)
                    /\ ~HasNoText(markup.companions[i].click) =>
                          companion_info.items[i].click_url = Strip(markup.companions[i].click)
                    /\ companion_info.html[i].image = None
                          <=> HasBlankText(markup.companions[i].static)
                    /\ companion_info.html[i].click = None
                          <=> HasBlankText(markup.companions[i].click)

\* two companions: one with neither child, then one with both
C17_Witness ==
    /\ op = "companion" /\ pc = "done" /\ markup.xml
    /\ Len(markup.companions) = 2
    /\ markup.companions[1] = Companion(None, None)
    /\ companion_info.items = << [image_url |-> None, click_url |-> None],
                                 [image_url |-> <<"img">>, click_url |-> <<"cc">>] >>

\* parse_ad_response has returned
ParseReturned == op = "parse" \/ parsed # NoResult

\* it returned a creative, not an error
ParseSucceeded == ParseReturned /\ parsed.error = ""

\* the envelope's AdType element (the one in the vendor namespace, the only
\* one the parser looks for) carries the Value "8"
AdTypeIsEight == envelope.typeAt = "ns" /\ envelope.typeValue = <<"8">>

C19_NoAdElementError ==
    (/\ ParseReturned /\ ~envelope.falsy /\ envelope.xml
     /\ ~envelope.nsAd.present /\ ~envelope.plainAd.present)
        => /\ parsed = ErrorResult(NoAdElementMsg)
           /\ escaped = NoError
           /\ pc = "done"

C19_Witness ==
    /\ op = "parse" /\ pc = "done"
    /\ envelope.xml /\ envelope.typeValue = <<"8">>
    /\ ~envelope.nsAd.present /\ ~envelope.plainAd.present
    /\ parsed.error = NoAdElementMsg

\* what the claim says an entity decodes to
DecodedEntity(tok) ==
    CASE tok = "&amp;" -> "&"
      [] tok = "&#39;" -> "'"
      [] tok = "&nbsp;" -> " "
      [] OTHER -> tok

\* the payload is the Ad element's own text and holds one of the three
\* entities among plain characters
EntityPayload ==
    /\ ParseSucceeded /\ envelope.nsAd.present /\ envelope.nsAd.children = <<>>
    /\ envelope.nsAd.text \in { <<"a", "&amp;", "b">>, <<"it", "&#39;", "s">>,
                                <<"a", "&nbsp;", "b">> }

\* C20: decode_html_entities maps '&amp;' to '&', '&#39;' to an apostrophe
\* and '&nbsp;' to a literal space.
C20_EntitiesDecoded ==
    EntityPayload =>
        parsed.creative =
            [i \in 1..Len(envelope.nsAd.text) |-> DecodedEntity(envelope.nsAd.text[i])]

\* C21: for empty or null input parse returns the 'No XML content provided'
\* error at once: the result is that error and not the one ET.fromstring
\* would have produced, the creative is not stored and nothing is raised.
C21_EmptyInputNoContentError ==
    (ParseReturned /\ envelope.falsy) =>
        /\ parsed = ErrorResult(NoContentMsg)
        /\ parsed.error # XmlParsingErrorMsg
        /\ pc = "done"
        /\ escaped = NoError

C21_Witness ==
    /\ op = "parse" /\ pc = "done"
    /\ envelope = NullEnvelope
    /\ parsed.error = NoContentMsg

\* the text is missing, empty or whitespace only
Blank(t) == t = None \/ \A i \in 1..Len(t) : t[i] = " "

\* the text without its leading and trailing whitespace
RECURSIVE Trim(_)
Trim(t) ==
    IF t = <<>> THEN <<>>
    ELSE IF t[1] = " " THEN Trim(Tail(t))
    ELSE IF t[Len(t)] = " " THEN Trim(SubSeq(t, 1, Len(t) - 1))
    ELSE t

\* positions of the Ad element's children that have non-blank text
TextedChildren(ad) == { i \in 1..Len(ad.children) : ~Blank(ad.children[i]) }

\* the payload the claim describes: the first such child's text, else the
\* element's own text, both trimmed
ExpectedPayload(ad) ==
    IF TextedChildren(ad) # {}
    THEN Trim(ad.children[CHOOSE i \in TextedChildren(ad) :
                            \A j \in TextedChildren(ad) : i <= j])
    ELSE IF Blank(ad.text) THEN <<>> ELSE Trim(ad.text)

\* parse found an Ad element
AdFound == ParseReturned /\ ~envelope.falsy /\ envelope.xml /\ FindAd(envelope).present

\* C25: the payload is the stripped text of the first immediate child of
\* the Ad element with non-blank text; only when no child has such text is
\* the element's own text used; when that is empty too parse fails with
\* 'No CDATA content found'.
C25_PayloadExtractionOrder ==
    AdFound =>
        IF ExpectedPayload(FindAd(envelope)) = <<>>
        THEN parsed = ErrorResult(NoCdataMsg)
        ELSE /\ parsed.error = ""
             /\ parsed.creative = decode_html_entities(ExpectedPayload(FindAd(envelope)))

C25_Witness ==
    /\ op = "parse"
    /\ envelope.nsAd = AdElem(<<<<" ", "one">>, <<"two">>>>, <<"own">>)
    /\ parsed.creative = <<"one">>

\* the posts of the creative data among the requests of the last call
CreativePosts == SelectSeq(sent, LAMBDA q : q.url = savanna_api_url)

\* the client's token is unexpired
HoldsValidToken == bearer_token.exp \in { "soon", "later" }

\* C22: smart_post_to_creative_pulling, when the client holds a valid
\* (unexpired) token, forwards the creative data to post_to_creative_pulling
\* and returns its result; None without posting only when no valid token
\* could be obtained.
C22_SmartPostForwards ==
    (client_op = "smart_post_to_creative_pulling" /\ HoldsValidToken) =>
        /\ CreativePosts # <<>>
        /\ client_ret = None =>
              CreativePosts[Len(CreativePosts)].status \notin { 200, 201 }

\* C26 as stated: post_to_creative_pulling sends at most two POST requests
\* per call; the second is sent only if the first returned 401 and
\* refresh_token_if_needed returned True, no third follows, and every other
\* status, a failed refresh or an exception makes the call return None.
C26_AtMostTwoPostRequests ==
    client_op = "post_to_creative_pulling" =>
        /\ Len(sent) \in { 1, 2 }
        /\ Len(sent) = 2 => sent[1].status = 401 /\ refreshed = "True"
        /\ sent[Len(sent)].status \notin { 200, 201 } => client_ret = None

\* C26 amended: post_to_creative_pulling posts the creative data to the
\* creative-pulling endpoint at most twice; the second of these posts is sent
\* only if the first returned 401 and refresh_token_if_needed returned True,
\* no third follows, and every other status, a failed refresh or an
\* exception makes the call return None.  (The refresh may send one more
\* POST, to the authentication endpoint.)
C26_AtMostTwoCreativePosts ==
    client_op = "post_to_creative_pulling" =>
        /\ Len(CreativePosts) \in { 1, 2 }
        /\ Len(CreativePosts) = 2 =>
              CreativePosts[1].status = 401 /\ refreshed = "True"
        /\ client_ret # None =>
              CreativePosts[Len(CreativePosts)].status \in { 200, 201 }
        /\ CreativePosts[1].status \notin { 200, 201, 401 } =>
              client_ret = None /\ Len(CreativePosts) = 1
        /\ (CreativePosts[1].status = 401 /\ refreshed # "True") =>
              client_ret = None /\ Len(CreativePosts) = 1
        /\ CreativePosts[Len(CreativePosts)].status \notin { 200, 201 } =>
              client_ret = None

C26_Witness ==
    /\ client_op = "post_to_creative_pulling"
    /\ Len(CreativePosts) = 2
    /\ CreativePosts[1].status = 401 /\ CreativePosts[2].status = 200
    /\ refreshed = "True"
    /\ Len(sent) = 3 /\ sent[2].url = feathers_auth_url
    /\ client_ret = <<"json", "creative_1">>

\* C27: after construction and after every sequence of
\* refresh_token_if_needed, _refresh_token, _update_token and
\* post_to_creative_pulling calls the session's Authorization header is
\* 'Bearer ' followed by the current bearer_token.
C27_HeaderCarriesToken ==
    client_op # "none" =>
        /\ authorization.scheme = "Bearer "
        /\ authorization.credentials = bearer_token.id

C27_Witness ==
    /\ client_op = "post_to_creative_pulling"
    /\ Len(sent) = 3
    /\ sent[1].authorization.credentials = "t2"
    /\ sent[3].authorization.credentials = "t1"
    /\ bearer_token = Token("t1", "later")
    /\ authorization.credentials = "t1"

\* a callback of this name is waiting in the queue
Scheduled(f) == \E i \in 1..Len(after_queue) : after_queue[i].fn = f

\* the job-start thread has not finished
ThreadRunning == job_thread # "none"

PollScheduled == Scheduled("_monitor_job_progress")

CompletionScheduled ==
    \/ Scheduled("_job_completed_successfully")
    \/ Scheduled("_job_completed_with_error")
    \/ Scheduled("_job_failed")

\* no poll is waiting for a run whose terminal state has been observed
NoPollAfterTerminal ==
    \A i \in 1..Len(after_queue) :
        after_queue[i].fn = "_monitor_job_progress" =>
            after_queue[i].run \notin terminal_seen

\* C28 as stated: whenever the Run Job button is disabled the job-start
\* thread is running, or a status poll is scheduled, or a completion callback
\* is scheduled; and once a terminal life_cycle_state has been observed no
\* further poll is scheduled for that run.
C28_DisabledMeansPending ==
    /\ run_job_button = "disabled" =>
          ThreadRunning \/ PollScheduled \/ CompletionScheduled
    /\ NoPollAfterTerminal

\* C28 amended: whenever the Run Job button is disabled the job-start thread
\* is running, or the monitoring start (_start_job_monitoring) is scheduled,
\* or a status poll is scheduled, or a completion callback is scheduled; and
\* once a terminal life_cycle_state has been observed no further poll is
\* scheduled for that run.
C28_DisabledMeansPendingOrStarting ==
    /\ run_job_button = "disabled" =>
          \/ ThreadRunning
          \/ Scheduled("_start_job_monitoring")
          \/ PollScheduled
          \/ CompletionScheduled
    /\ NoPollAfterTerminal

C28_Witness ==
    /\ run_job_button = "disabled"
    /\ job_thread = "none"
    /\ runs_started = 2
    /\ 1 \in terminal_seen
    /\ Scheduled("_start_job_monitoring")
    /\ ~PollScheduled /\ ~CompletionScheduled

\* C29: after any sequence of creative loads/refreshes, search-term edits
\* and list selections, selecting row i of the creative listbox displays the
\* creative whose text is shown at row i.
C29_SelectedRowIsDisplayed ==
    list_op = "on_creative_select" =>
        /\ selected_creative # NoCreative
        /\ DisplayText(selected_creative) = creative_listbox[curselection]
        /\ current_markup = DisplayCreative(selected_creative).markup

\* the id the API gave for a network name
IdOfName(name) == IF name = <<"alpha">> THEN <<"101">> ELSE <<"102">>

\* C30: under every interleaving of the initial network-load thread,
\* debounced network searches and their completion callbacks, each network
\* name offered in the dropdown has an entry in network_id_map holding that
\* network's id, so selecting an offered name fills the Ad Network ID field.
C30_OfferedNamesHaveIds ==
    /\ \A i \in 1..Len(dropdown_values) :
          /\ dropdown_values[i] \in DOMAIN network_id_map
          /\ network_id_map[dropdown_values[i]] = IdOfName(dropdown_values[i])
    /\ net_op = "on_network_selected" =>
          unified_ad_network_id_var = IdOfName(network_dropdown_var)

\* a media call and a click call that were handed the same markup, and so
\* walk the same chain
SameChain(a, b) ==
    /\ calls[a].kind = "media" /\ calls[b].kind = "click"
    /\ calls[a].pc # "idle" /\ calls[b].pc # "idle"
    /\ calls[a].markup = calls[b].markup

\* the URIs a call has fetched, in order
FetchedUris(c) == [i \in 1..Len(calls[c].fetches) |-> calls[c].fetches[i].uri]

IsPrefix(p, q) == Len(p) <= Len(q) /\ p = SubSeq(q, 1, Len(p))

\* the failures the two walkers have in common
ChainFailures ==
    { ExceededMsg, FetchFailedMsg, RequestExceptionMsg, InvalidXmlMsg, NoLinearMsg,
      NoTagMsg, NeitherMsg }

FailedOnChain(c) ==
    /\ calls[c].pc = "done"
    /\ calls[c].out.kind = "raise"
    /\ calls[c].out.error.msg \in ChainFailures

\* C23: the media walker and the click-through walker, on the same chain,
\* fetch the same sequence of URIs, and when one of them fails on the hop
\* limit, a fetch, the XML, a missing Linear, a missing VASTAdTagURI or a
\* document with neither InLine nor Wrapper, the other fails at the same
\* depth with the same error.
C23_WalkersShareChainLogic ==
    \A a, b \in Callers :
        SameChain(a, b) =>
            /\ IsPrefix(FetchedUris(a), FetchedUris(b))
                  \/ IsPrefix(FetchedUris(b), FetchedUris(a))
            /\ calls[a].pc = "done" /\ calls[b].pc = "done" =>
                  /\ FetchedUris(a) = FetchedUris(b)
                  /\ FailedOnChain(a) \/ FailedOnChain(b) =>
                        /\ calls[a].out.kind = "raise" /\ calls[b].out.kind = "raise"
                        /\ calls[a].out.error = calls[b].out.error
                        /\ calls[a].wrapper_count = calls[b].wrapper_count

\* both walkers have followed a chain of two documents and failed on the
\* second, a Wrapper without VASTAdTagURI
C23_Witness ==
    /\ SameChain(1, 2)
    /\ FailedOnChain(1) /\ FailedOnChain(2)
    /\ calls[1].out.error.msg = NoTagMsg
    /\ Len(calls[1].fetches) = 2 /\ Len(calls[2].fetches) = 2
    /\ calls[1].wrapper_count = 1

\* the server's answer to the request for u at a level, once it has given one
IsServed(level, u) == \E e \in served : e.level = level /\ e.uri = u

ServedAnswer(level, u) ==
    (CHOOSE e \in served : e.level = level /\ e.uri = u).response

Unserved == Raised(Raise("not served"))

\* a resolution run alone against the server: what its walker does and the
\* requests it makes, as far as the server has answered
RECURSIVE Alone(_, _, _, _)
Alone(kind, u, wc, log) ==
    IF wc > (IF kind = "media" THEN MAX_VAST_WRAPPERS ELSE CLICK_MAX_VAST_WRAPPERS)
    THEN [out |-> Raised(Raise(ExceededMsg)), fetches |-> log]
    ELSE IF ~IsServed(wc, u) THEN [out |-> Unserved, fetches |-> log]
    ELSE LET r == ServedAnswer(wc, u)
             o == IF kind = "media" THEN ProcessVastResponse(r) ELSE ClickThroughResponse(r)
             l == Append(log, FetchEntry(u, wc, r))
         IN  IF o.kind = "recurse" THEN Alone(kind, o.next, wc + 1, l)
             ELSE [out |-> o, fetches |-> l]

AloneOf(c) == Alone(calls[c].kind, HtmlUnescape(VastAdTag(calls[c].markup)), 0, <<>>)

AloneReturn(c) ==
    IF calls[c].kind = "media" THEN MediaReturn(calls[c].markup, AloneOf(c).out)
    ELSE ClickReturn(calls[c].markup, AloneOf(c).out)

\* a call that walks a chain
Walks(c) == calls[c].kind # "none" /\ VastAdTag(calls[c].markup) # None

\* a step of a resolution
ResolutionStep == calls' # calls

\* C24: resolutions share no state: however two of them are interleaved at
\* their fetches, each makes the requests and produces the result it would
\* have alone, and no step of a resolution changes creatives,
\* current_markup, current_type or the selected creative.
C24_ResolutionsAreIndependent ==
    /\ [](\A c \in Callers :
            Walks(c) =>
               /\ IsPrefix(calls[c].fetches, AloneOf(c).fetches)
               /\ calls[c].pc = "done" =>
                     /\ calls[c].fetches = AloneOf(c).fetches
                     /\ calls[c].out = AloneOf(c).out
                     /\ calls[c].ret = AloneReturn(c))
    /\ [][ResolutionStep =>
             UNCHANGED <<creatives, current_markup, current_type, selected_creative>>]_vars

\* a creative is displayed, one resolution has ended after two requests and
\* another, of the other kind, is under way
C24_Witness ==
    /\ selected_creative # NoCreative
    /\ calls[1].pc = "done" /\ Len(calls[1].fetches) >= 2
    /\ calls[2].pc = "walk" /\ Len(calls[2].fetches) >= 1
    /\ calls[1].kind # calls[2].kind

====
